---------------------------- MODULE Spec2Model ----------------------------
(***************************************************************************)
(* Model of the CBC top-stories application (jbarson/cbc-news).            *)
(*                                                                         *)
(* Text is modelled as a sequence of one-character strings, so that the    *)
(* regular expressions of the safety classifier and the validators of the  *)
(* branded types are computed character by character, as the code does.    *)
(***************************************************************************)
EXTENDS Integers, Sequences, FiniteSets, TLC

VARIABLES
    content,    \* the markup handed to containsJavaScript
    verdict,    \* what containsJavaScript returned for it ("pending" before the call)
    feed,       \* what parser.parseURL settles with when GET awaits it
    response,   \* the response GET returned (NoResponse before it has)
    timestamp,       \* the pubDate of the story, handed to formatDate
    clock,           \* what new Date() reads when formatDate runs
    timeZoneOffset,  \* the minutes local time is behind UTC
    formatted,       \* what formatDate returned (NotFormatted before it has)
    diffs,           \* the month and year counts formatDate computed on the way
    story,           \* the story prop of the StoryCard
    viewMode,        \* the viewMode prop of the StoryCard
    isExpanded,      \* the isExpanded state of the StoryCard
    activations,     \* the clicks and Enter or Space keydowns on the title button so far
    rendered,        \* what the StoryCard rendered last
    requestJson,     \* what request.json() settles with when POST awaits it
    postResponse,    \* the response POST returned (NoResponse before it has)
    console,         \* the calls of console.warn and console.error POST made
    processEnv,      \* the environment variables of the process the middleware reads
    middlewareHeaders, \* the headers of the response the middleware returned (NoHeaders before it has)
    candidate,       \* the link and the date handed to the factories and the converters
    converted,       \* what the factories and the converters gave for them (NotConverted before they have)
    home,            \* the state of the Home component: stories, loading, error, refreshing, viewMode
    localStorage,    \* what is saved under the key viewMode (NullString when nothing is)
    started,         \* the fetches of /api/rss started since the page was loaded
    inFlight,        \* the fetches of /api/rss that have not settled
    completed,       \* the fetches that have settled since the page was loaded
    lastOutcome,     \* what the fetch that settled last settled with (NoOutcome before one has)
    toggled,         \* whether the view toggle button has been clicked
    markup,          \* the html handed to optimizeImagesInHTML
    optimized        \* what optimizeImagesInHTML returned for it (NotOptimized before it has)

classifierVars == <<content, verdict>>

routeVars == <<feed, response>>

dateVars == <<timestamp, clock, timeZoneOffset, formatted, diffs>>

cardVars == <<story, viewMode, isExpanded, activations, rendered>>

reportVars == <<requestJson, postResponse, console>>

middlewareVars == <<processEnv, middlewareHeaders>>

typeVars == <<candidate, converted>>

homeVars == <<home, localStorage, started, inFlight, completed, lastOutcome, toggled>>

imageVars == <<markup, optimized>>

vars == <<content, verdict, feed, response,
          timestamp, clock, timeZoneOffset, formatted, diffs,
          story, viewMode, isExpanded, activations, rendered,
          requestJson, postResponse, console,
          processEnv, middlewareHeaders,
          candidate, converted,
          home, localStorage, started, inFlight, completed, lastOutcome, toggled,
          markup, optimized>>

(***************************************************************************)
(* JavaScript values                                                       *)
(***************************************************************************)
\* The value `undefined`.  Every character of a text is a one-character
\* string, so this is not a text.
Undefined == <<"undefined">>

\* The empty string ''.
EmptyString == <<>>

\* !x for x a string or undefined.
Falsy(x) == x = Undefined \/ x = EmptyString

\* a || b
Or(a, b) == IF Falsy(a) THEN b ELSE a

\* The value null.
Null == [null |-> TRUE]

(***************************************************************************)
(* Characters                                                              *)
(***************************************************************************)
LowerLetters == <<"a", "b", "c", "d", "e", "f", "g", "h", "i", "j", "k", "l", "m", "n", "o", "p", "q", "r", "s", "t", "u", "v", "w", "x", "y", "z">>

UpperLetters == <<"A", "B", "C", "D", "E", "F", "G", "H", "I", "J", "K", "L", "M", "N", "O", "P", "Q", "R", "S", "T", "U", "V", "W", "X", "Y", "Z">>

Digits == {"0", "1", "2", "3", "4", "5", "6", "7", "8", "9"}

Range(s) == {s[i] : i \in 1..Len(s)}

LowerSet == Range(LowerLetters)

UpperSet == Range(UpperLetters)

\* The characters the regular-expression class \s matches (the ASCII ones).
WhiteSpace == {" ", "\t", "\n", "\r", "\f"}

\* The characters of the regular-expression class \w.
WordChars == LowerSet \cup UpperSet \cup Digits \cup {"_"}

\* The lower-case form of each upper-case letter, and the converse.
LowerOf ==
    [c \in UpperSet |->
        LowerLetters[CHOOSE i \in 1..Len(UpperLetters) : UpperLetters[i] = c]]

UpperOf ==
    [c \in LowerSet |->
        UpperLetters[CHOOSE i \in 1..Len(LowerLetters) : LowerLetters[i] = c]]

\* String.prototype.toLowerCase on one character.
toLowerCaseChar(c) == IF c \in UpperSet THEN LowerOf[c] ELSE c

\* String.prototype.toUpperCase on one character.
toUpperCaseChar(c) == IF c \in LowerSet THEN UpperOf[c] ELSE c

\* String.prototype.toLowerCase.
toLowerCase(s) == [i \in 1..Len(s) |-> toLowerCaseChar(s[i])]

\* String.prototype.toUpperCase.
toUpperCase(s) == [i \in 1..Len(s) |-> toUpperCaseChar(s[i])]

(***************************************************************************)
(* Regular expressions, as the engine evaluates them                       *)
(***************************************************************************)
\* Canonicalize of the `i` flag (no `u` flag): a character is compared by
\* its upper-case form.
Canonicalize(c, ignoreCase) == IF ignoreCase THEN toUpperCaseChar(c) ELSE c

\* The literal lit matches s from position i on.
LiteralAt(s, i, lit, ignoreCase) ==
    /\ i >= 1
    /\ i + Len(lit) - 1 <= Len(s)
    /\ \A k \in 1..Len(lit) :
          Canonicalize(s[i + k - 1], ignoreCase) = Canonicalize(lit[k], ignoreCase)

\* s has a \w character at position i (no character outside 1..Len(s)).
IsWordCharAt(s, i) == i >= 1 /\ i <= Len(s) /\ s[i] \in WordChars

\* The assertion \b holds between positions i-1 and i of s.
WordBoundaryAt(s, i) == IsWordCharAt(s, i - 1) # IsWordCharAt(s, i)

\* \s*c matches s from position j on: a run of white space, then c.
SpacesThenAt(s, j, c) ==
    \E k \in j..Len(s) :
        /\ s[k] = c
        /\ \A m \in j..(k - 1) : s[m] \in WhiteSpace

\* /<script[\s>]/.test(s)
ScriptTagRegexTest(s) ==
    \E i \in 1..Len(s) :
        /\ LiteralAt(s, i, <<"<", "s", "c", "r", "i", "p", "t">>, FALSE)
        /\ i + 7 <= Len(s)
        /\ s[i + 7] \in WhiteSpace \cup {">"}

\* /javascript:/i.test(s)
JavascriptProtocolRegexTest(s) ==
    \E i \in 1..Len(s) : LiteralAt(s, i, <<"j", "a", "v", "a", "s", "c", "r", "i", "p", "t", ":">>, TRUE)

\* new RegExp(`\\b${name}\\s*${c}`, 'i').test(s), c one of = and (
WordThenRegexTest(name, c, s) ==
    \E i \in 1..Len(s) :
        /\ WordBoundaryAt(s, i)
        /\ LiteralAt(s, i, name, TRUE)
        /\ SpacesThenAt(s, i + Len(name), c)

(***************************************************************************)
(* containsJavaScript (app/api/rss/route.ts)                               *)
(***************************************************************************)
eventHandlers == <<
    <<"o", "n", "c", "l", "i", "c", "k">>, <<"o", "n", "e", "r", "r", "o", "r">>, <<"o", "n", "l", "o", "a", "d">>, <<"o", "n", "m", "o", "u", "s", "e", "o", "v", "e", "r">>, <<"o", "n", "m", "o", "u", "s", "e", "o", "u", "t">>,
    <<"o", "n", "f", "o", "c", "u", "s">>, <<"o", "n", "b", "l", "u", "r">>, <<"o", "n", "c", "h", "a", "n", "g", "e">>, <<"o", "n", "s", "u", "b", "m", "i", "t">>, <<"o", "n", "k", "e", "y", "d", "o", "w", "n">>,
    <<"o", "n", "k", "e", "y", "p", "r", "e", "s", "s">>, <<"o", "n", "k", "e", "y", "u", "p">>, <<"o", "n", "a", "b", "o", "r", "t">>, <<"o", "n", "b", "e", "f", "o", "r", "e", "u", "n", "l", "o", "a", "d">>, <<"o", "n", "d", "b", "l", "c", "l", "i", "c", "k">>,
    <<"o", "n", "d", "r", "a", "g">>, <<"o", "n", "d", "r", "a", "g", "e", "n", "d">>, <<"o", "n", "d", "r", "a", "g", "e", "n", "t", "e", "r">>, <<"o", "n", "d", "r", "a", "g", "l", "e", "a", "v", "e">>, <<"o", "n", "d", "r", "a", "g", "o", "v", "e", "r">>,
    <<"o", "n", "d", "r", "a", "g", "s", "t", "a", "r", "t">>, <<"o", "n", "d", "r", "o", "p">>, <<"o", "n", "i", "n", "p", "u", "t">>, <<"o", "n", "i", "n", "v", "a", "l", "i", "d">>, <<"o", "n", "m", "o", "u", "s", "e", "d", "o", "w", "n">>,
    <<"o", "n", "m", "o", "u", "s", "e", "m", "o", "v", "e">>, <<"o", "n", "m", "o", "u", "s", "e", "u", "p">>, <<"o", "n", "r", "e", "s", "e", "t">>, <<"o", "n", "r", "e", "s", "i", "z", "e">>, <<"o", "n", "s", "c", "r", "o", "l", "l">>,
    <<"o", "n", "s", "e", "l", "e", "c", "t">>, <<"o", "n", "u", "n", "l", "o", "a", "d">> >>

\* The first rule with the tag looked for in the content as it came.
ScriptTagRule_caseSensitive(text) == ScriptTagRegexTest(text)

\* The first rule: the script tag is looked for in the lower-cased content.
ScriptTagRule(text) == ScriptTagRegexTest(toLowerCase(text))

\* The second rule without the `i` flag.
JavascriptProtocolRule_caseSensitive(text) ==
    \E i \in 1..Len(text) : LiteralAt(text, i, <<"j", "a", "v", "a", "s", "c", "r", "i", "p", "t", ":">>, FALSE)

\* The second rule.
JavascriptProtocolRule(text) == JavascriptProtocolRegexTest(text)

\* The third rule with \s* left out of the expression: the = has to follow
\* the name at once.
EventHandlerRule_noGap(text) ==
    \E h \in 1..Len(eventHandlers) :
        \E i \in 1..Len(text) :
            /\ WordBoundaryAt(text, i)
            /\ LiteralAt(text, i, eventHandlers[h] \o <<"=">>, TRUE)

\* The third rule without the \b in front of the name.
EventHandlerRule_unbounded(text) ==
    \E h \in 1..Len(eventHandlers) :
        \E i \in 1..Len(text) :
            /\ LiteralAt(text, i, eventHandlers[h], TRUE)
            /\ SpacesThenAt(text, i + Len(eventHandlers[h]), "=")

\* The third rule: eventHandlers.some(handler => /\b<handler>\s*=/i.test(text))
EventHandlerRule(text) ==
    \E h \in 1..Len(eventHandlers) : WordThenRegexTest(eventHandlers[h], "=", text)

\* The fourth rule without its last expression.
EvalRule_withoutInterval(text) ==
    \/ WordThenRegexTest(<<"e", "v", "a", "l">>, "(", text)
    \/ WordThenRegexTest(<<"s", "e", "t", "T", "i", "m", "e", "o", "u", "t">>, "(", text)

\* The fourth rule.
EvalRule(text) ==
    \/ WordThenRegexTest(<<"e", "v", "a", "l">>, "(", text)
    \/ WordThenRegexTest(<<"s", "e", "t", "T", "i", "m", "e", "o", "u", "t">>, "(", text)
    \/ WordThenRegexTest(<<"s", "e", "t", "I", "n", "t", "e", "r", "v", "a", "l">>, "(", text)

\* containsJavaScript answering true where there is no content.
containsJavaScript_emptyUnsafe(text) ==
    IF Falsy(text) THEN TRUE
    ELSE IF ScriptTagRule(text) THEN TRUE
    ELSE IF JavascriptProtocolRule(text) THEN TRUE
    ELSE IF EventHandlerRule(text) THEN TRUE
    ELSE IF EvalRule(text) THEN TRUE
    ELSE FALSE

containsJavaScript(text) ==
    IF Falsy(text) THEN FALSE
    ELSE IF ScriptTagRule(text) THEN TRUE
    ELSE IF JavascriptProtocolRule(text) THEN TRUE
    ELSE IF EventHandlerRule(text) THEN TRUE
    ELSE IF EvalRule(text) THEN TRUE
    ELSE FALSE

(***************************************************************************)
(* Branded types (app/types): createStoryLink, createDateString            *)
(***************************************************************************)
AsciiAlpha == LowerSet \cup UpperSet

AsciiAlphanumeric == AsciiAlpha \cup Digits

\* The schemes for which the URL parser requires a host.
SpecialSchemes == {<<"h", "t", "t", "p">>, <<"h", "t", "t", "p", "s">>, <<"f", "t", "p">>, <<"w", "s">>, <<"w", "s", "s">>}

\* What follows "scheme:" of a special scheme holds a host: slashes, then a
\* non-empty run of host characters up to the path, query or fragment.
\* (Ports, credentials and IP literals are not modelled; no text of the
\* model has them.)
HasHost(rest) ==
    \E a \in 1..Len(rest) :
        /\ \A m \in 1..(a - 1) : rest[m] \in {"/", "\\"}
        /\ rest[a] \in AsciiAlphanumeric
        /\ \E b \in a..Len(rest) :
              /\ \A m \in a..b : rest[m] \in AsciiAlphanumeric \cup {".", "-"}
              /\ b = Len(rest) \/ rest[b + 1] \in {"/", "\\", "?", "#"}

\* new URL(link) does not throw: link starts with a scheme (a letter, then
\* letters, digits, +, - and . up to a colon), and a special scheme is
\* followed by a host.  There is no base URL, so a text without a scheme fails.
URLParses(link) ==
    /\ Len(link) >= 1
    /\ link[1] \in AsciiAlpha
    /\ \E k \in 2..Len(link) :
          /\ link[k] = ":"
          /\ \A m \in 2..(k - 1) : link[m] \in AsciiAlphanumeric \cup {"+", "-", "."}
          /\ toLowerCase(SubSeq(link, 1, k - 1)) \in SpecialSchemes
                => HasHost(SubSeq(link, k + 1, Len(link)))

DigitValue(c) == CHOOSE n \in 0..9 : <<"0", "1", "2", "3", "4", "5", "6", "7", "8", "9">>[n + 1] = c

\* The number written by the n digits of s from position i on, -1 if one
\* of them is no digit.
RECURSIVE NumberAt(_, _, _)
NumberAt(s, i, n) ==
    IF n = 0 THEN 0
    ELSE IF i + n - 1 > Len(s) \/ s[i + n - 1] \notin Digits THEN -1
    ELSE LET high == NumberAt(s, i, n - 1)
         IN  IF high < 0 THEN -1 ELSE 10 * high + DigitValue(s[i + n - 1])

\* s is YYYY-MM-DD with a month of 1..12 and a day of 1..31.
IsISODate(s) ==
    /\ Len(s) >= 10
    /\ s[5] = "-" /\ s[8] = "-"
    /\ NumberAt(s, 1, 4) >= 0
    /\ NumberAt(s, 6, 2) \in 1..12
    /\ NumberAt(s, 9, 2) \in 1..31

\* s is THH:mm:ssZ from position 11 on.
IsISOTime(s) ==
    /\ Len(s) = 20
    /\ s[11] = "T" /\ s[14] = ":" /\ s[17] = ":" /\ s[20] = "Z"
    /\ NumberAt(s, 12, 2) \in 0..23
    /\ NumberAt(s, 15, 2) \in 0..59
    /\ NumberAt(s, 18, 2) \in 0..59

\* !Number.isNaN(new Date(date).getTime()): date is in the date-time string
\* format.  (The texts of the model are either in that format, with a day
\* that exists in its month, or hold no digit at all, which no fallback
\* parser of an engine reads as a date.)
DateParses(date) == IsISODate(date) /\ (Len(date) = 10 \/ IsISOTime(date))

\* What a call that can throw gives: the value returned or the Error thrown.
Returns(v) == [threw |-> FALSE, value |-> v]

Throws(message) == [threw |-> TRUE, message |-> message]

createStoryLink(link) ==
    IF Falsy(link) THEN Throws("Invalid story link")
    ELSE IF ~URLParses(link) THEN Throws("Invalid URL format")
    ELSE Returns(link)

\* createDateString checking only that there is a text.
createDateString_unparsed(date) ==
    IF Falsy(date) THEN Throws("Invalid date string") ELSE Returns(date)

createDateString(date) ==
    IF Falsy(date) THEN Throws("Invalid date string")
    ELSE IF ~DateParses(date) THEN Throws("Invalid date format")
    ELSE Returns(date)

\* try { return createStoryLink(link) } catch { return null }
toStoryLink(link) ==
    LET created == createStoryLink(link)
    IN  IF created.threw THEN Null ELSE created.value

\* toDateString giving back every text there is, parseable or not.
toDateString_unparsed(date) == IF Falsy(date) THEN Null ELSE date

\* try { return createDateString(date) } catch { return null }
toDateString(date) ==
    LET created == createDateString(date)
    IN  IF created.threw THEN Null ELSE created.value

\* createServerError building the error of another factory.
createServerError_http(statusCode, message) ==
    [type |-> "HTTP_ERROR", statusCode |-> statusCode, message |-> message,
     timestamp |-> "now"]

\* The timestamp of an error is the clock's reading, which no claim reads.
createServerError(statusCode, message) ==
    [type |-> "SERVER_ERROR", statusCode |-> statusCode, message |-> message,
     timestamp |-> "now"]

(***************************************************************************)
(* GET (app/api/rss/route.ts)                                              *)
(***************************************************************************)
\* item.key: undefined when the object has no such property.
Prop(item, key) == IF key \in DOMAIN item THEN item[key] ELSE Undefined

\* An object with the given properties, those that are undefined left out
\* (as rss-parser leaves out what the feed does not have, and as
\* JSON.stringify leaves out undefined properties of a response).
Object(props) ==
    [key \in {k \in DOMAIN props : props[k] # Undefined} |-> props[key]]

\* mapItem classifying the rich content alone, not the summary it falls
\* back to.
mapItem_contentOnly(item) ==
    IF containsJavaScript(Or(Prop(item, "content"), EmptyString)) THEN Null
    ELSE LET link    == createStoryLink(Or(Prop(item, "link"), EmptyString))
             pubDate == createDateString(Or(Prop(item, "pubDate"), EmptyString))
         IN  IF link.threw \/ pubDate.threw THEN Null
             ELSE [title          |-> Or(Prop(item, "title"), EmptyString),
                   link           |-> link.value,
                   pubDate        |-> pubDate.value,
                   contentSnippet |-> Prop(item, "contentSnippet"),
                   content        |-> Prop(item, "content")]

\* mapItem giving an item without a title the title of the log line.
mapItem_untitled(item) ==
    LET text == Or(Prop(item, "content"), Or(Prop(item, "contentSnippet"), EmptyString))
    IN  IF containsJavaScript(text) THEN Null
        ELSE LET link    == createStoryLink(Or(Prop(item, "link"), EmptyString))
                 pubDate == createDateString(Or(Prop(item, "pubDate"), EmptyString))
             IN  IF link.threw \/ pubDate.threw THEN Null
                 ELSE [title          |-> Or(Prop(item, "title"), <<"U", "n", "t", "i", "t", "l", "e", "d">>),
                       link           |-> link.value,
                       pubDate        |-> pubDate.value,
                       contentSnippet |-> Prop(item, "contentSnippet"),
                       content        |-> Prop(item, "content")]

\* mapItem with the two content properties taken from each other.
mapItem_swapped(item) ==
    LET text == Or(Prop(item, "content"), Or(Prop(item, "contentSnippet"), EmptyString))
    IN  IF containsJavaScript(text) THEN Null
        ELSE LET link    == createStoryLink(Or(Prop(item, "link"), EmptyString))
                 pubDate == createDateString(Or(Prop(item, "pubDate"), EmptyString))
             IN  IF link.threw \/ pubDate.threw THEN Null
                 ELSE [title          |-> Or(Prop(item, "title"), EmptyString),
                       link           |-> link.value,
                       pubDate        |-> pubDate.value,
                       contentSnippet |-> Prop(item, "content"),
                       content        |-> Prop(item, "contentSnippet")]

\* The callback of feed.items.map: the RSSItem made of a feed item, or null.
mapItem(item) ==
    LET text == Or(Prop(item, "content"), Or(Prop(item, "contentSnippet"), EmptyString))
    IN  IF containsJavaScript(text) THEN Null
        ELSE LET link    == createStoryLink(Or(Prop(item, "link"), EmptyString))
                 pubDate == createDateString(Or(Prop(item, "pubDate"), EmptyString))
             IN  IF link.threw \/ pubDate.threw THEN Null
                 ELSE [title          |-> Or(Prop(item, "title"), EmptyString),
                       link           |-> link.value,
                       pubDate        |-> pubDate.value,
                       contentSnippet |-> Prop(item, "contentSnippet"),
                       content        |-> Prop(item, "content")]

\* filter collecting the items it keeps in front of those kept before.
RECURSIVE filterNotNull_reversed(_)
filterNotNull_reversed(list) ==
    IF list = <<>> THEN <<>>
    ELSE IF Head(list) # Null
         THEN filterNotNull_reversed(Tail(list)) \o <<Head(list)>>
    ELSE filterNotNull_reversed(Tail(list))

\* Array.prototype.filter(item => item !== null)
RECURSIVE filterNotNull(_)
filterNotNull(list) ==
    IF list = <<>> THEN <<>>
    ELSE IF Head(list) # Null THEN <<Head(list)>> \o filterNotNull(Tail(list))
    ELSE filterNotNull(Tail(list))

\* const items = feed.items.map(...).filter(...)
items(feedItems) == filterNotNull([i \in 1..Len(feedItems) |-> mapItem(feedItems[i])])

\* The items as the client parses them back from the JSON of the response:
\* a property that is undefined is not written.
toJSON(list) == [i \in 1..Len(list) |-> Object(list[i])]

\* NextResponse.json(body, {status}): the status and the body as the client
\* parses it back from JSON.
NextResponseJson(body, status) == [status |-> status, body |-> body]

\* The try block of GET, for the feed parser.parseURL resolved with.
GETTry(parsed) ==
    NextResponseJson(
        [success     |-> TRUE,
         title       |-> Or(Prop(parsed, "title"), EmptyString),
         description |-> Or(Prop(parsed, "description"), EmptyString),
         items       |-> toJSON(items(parsed.items))],
        200)

\* The catch block of GET.
GETCatch ==
    NextResponseJson(
        [success |-> FALSE,
         error   |-> createServerError(500, "Failed to fetch RSS feed")],
        500)

\* GET with a flagged story thrown out of the try block instead of mapped
\* to null.
GETResponse_throwing(outcome) ==
    IF /\ outcome.resolved
       /\ \A i \in 1..Len(outcome.feed.items) :
             ~containsJavaScript(
                 Or(Prop(outcome.feed.items[i], "content"),
                    Or(Prop(outcome.feed.items[i], "contentSnippet"), EmptyString)))
    THEN GETTry(outcome.feed)
    ELSE GETCatch

\* What GET returns once parser.parseURL has settled with outcome.
GETResponse(outcome) ==
    IF outcome.resolved THEN GETTry(outcome.feed) ELSE GETCatch

(***************************************************************************)
(***************************************************************************)
(* Numbers and Date objects (app/components/StoryCard.tsx)                 *)
(*                                                                         *)
(* A Date is its time value.  Time values are counted in seconds: the      *)
(* timestamps of a feed have no fraction of a second, so the milliseconds  *)
(* of the clock are what Math.floor(diffMs / 1000) drops.                  *)
(***************************************************************************)
\* The number NaN: the time value of an Invalid Date.  It stands outside
\* the numbers the model computes with.
NaN == -999999999

\* a < b and a > b, false when an operand is NaN.
LessThan(a, b) == a # NaN /\ b # NaN /\ a < b

GreaterThan(a, b) == a # NaN /\ b # NaN /\ a > b

\* a + b, a - b and a * b, NaN when an operand is NaN.
Plus(a, b) == IF a = NaN \/ b = NaN THEN NaN ELSE a + b

Minus(a, b) == IF a = NaN \/ b = NaN THEN NaN ELSE a - b

Times(a, b) == IF a = NaN \/ b = NaN THEN NaN ELSE a * b

\* Math.floor(a / n) for n > 0.
MathFloorDiv(a, n) == IF a = NaN THEN NaN ELSE a \div n

\* Math.max(a, b) and Math.min(a, b): NaN when an operand is NaN.
MathMax(a, b) == IF a = NaN \/ b = NaN THEN NaN ELSE IF a >= b THEN a ELSE b

MathMin(a, b) == IF a = NaN \/ b = NaN THEN NaN ELSE IF a <= b THEN a ELSE b

\* The decimal digits of n >= 0.
RECURSIVE DecimalDigits(_)
DecimalDigits(n) ==
    IF n < 10 THEN <<<<"0", "1", "2", "3", "4", "5", "6", "7", "8", "9">>[n + 1]>>
    ELSE DecimalDigits(n \div 10) \o <<<<"0", "1", "2", "3", "4", "5", "6", "7", "8", "9">>[(n % 10) + 1]>>

\* `${n}`: a number in a template literal.
NumberToString(n) ==
    IF n = NaN THEN <<"N", "a", "N">>
    ELSE IF n < 0 THEN <<"-">> \o DecimalDigits(0 - n)
    ELSE DecimalDigits(n)

SecondsPerDay == 86400

\* DayFromYear of ECMAScript: the day number of January 1 of year y.
DayFromYear(y) ==
    365 * (y - 1970) + ((y - 1969) \div 4) - ((y - 1901) \div 100) + ((y - 1601) \div 400)

InLeapYear(y) == DayFromYear(y + 1) - DayFromYear(y) = 366

\* The days of year y before its month m (0 for January, 12 for the end
\* of the year).
MonthStart(y, m) ==
    <<0, 31, 59, 90, 120, 151, 181, 212, 243, 273, 304, 334, 365>>[m + 1]
        + (IF m >= 2 /\ InLeapYear(y) THEN 1 ELSE 0)

\* MakeDay of ECMAScript: a month outside 0..11 carries into the year, and
\* a date outside the month carries into the neighbouring months.
MakeDay(year, month, date) ==
    LET ym == year + (month \div 12)
        mn == month % 12
    IN  DayFromYear(ym) + MonthStart(ym, mn) + date - 1

\* YearFromTime, MonthFromTime and DateFromTime of ECMAScript, for a day
\* number.
YearFromDay(day) ==
    CHOOSE y \in (1970 + (day \div 366))..(1970 + (day \div 365)) :
        DayFromYear(y) <= day /\ day < DayFromYear(y + 1)

MonthFromDay(day) ==
    LET y == YearFromDay(day)
    IN  CHOOSE m \in 0..11 :
            /\ DayFromYear(y) + MonthStart(y, m) <= day
            /\ day < DayFromYear(y) + MonthStart(y, m + 1)

DateFromDay(day) ==
    LET y == YearFromDay(day)
    IN  day - DayFromYear(y) - MonthStart(y, MonthFromDay(day)) + 1

\* LocalTime of ECMAScript: the time zone of the browser is a fixed number
\* of minutes behind UTC (getTimezoneOffset), without daylight saving.
LocalDay(t) == (t - timeZoneOffset * 60) \div SecondsPerDay

LocalSecondOfDay(t) == (t - timeZoneOffset * 60) % SecondsPerDay

\* Date.prototype.getTime, getFullYear, getMonth and getDate.
getTime(date) == date

getFullYear(date) == IF date = NaN THEN NaN ELSE YearFromDay(LocalDay(date))

getMonth(date) == IF date = NaN THEN NaN ELSE MonthFromDay(LocalDay(date))

getDate(date) == IF date = NaN THEN NaN ELSE DateFromDay(LocalDay(date))

\* new Date(year, month, date, 0, 0, 0, 0): midnight of that day in local
\* time.
NewDate(year, month, date) ==
    IF year = NaN \/ month = NaN \/ date = NaN THEN NaN
    ELSE MakeDay(year, month, date) * SecondsPerDay + timeZoneOffset * 60

\* new Date(dateString): the date-time string format, read as UTC; an
\* Invalid Date for any other text of the model.
DateParse(dateString) ==
    IF ~DateParses(dateString) THEN NaN
    ELSE MakeDay(NumberAt(dateString, 1, 4), NumberAt(dateString, 6, 2) - 1,
                 NumberAt(dateString, 9, 2)) * SecondsPerDay
            + (IF Len(dateString) = 10 THEN 0
               ELSE NumberAt(dateString, 12, 2) * 3600
                       + NumberAt(dateString, 15, 2) * 60
                       + NumberAt(dateString, 18, 2))

MonthNames == <<
    <<"J", "a", "n", "u", "a", "r", "y">>, <<"F", "e", "b", "r", "u", "a", "r", "y">>, <<"M", "a", "r", "c", "h">>, <<"A", "p", "r", "i", "l">>, <<"M", "a", "y">>, <<"J", "u", "n", "e">>, <<"J", "u", "l", "y">>,
    <<"A", "u", "g", "u", "s", "t">>, <<"S", "e", "p", "t", "e", "m", "b", "e", "r">>, <<"O", "c", "t", "o", "b", "e", "r">>, <<"N", "o", "v", "e", "m", "b", "e", "r">>, <<"D", "e", "c", "e", "m", "b", "e", "r">> >>

\* A number of two digits.
TwoDigits(n) == IF n < 10 THEN <<"0">> \o DecimalDigits(n) ELSE DecimalDigits(n)

\* date.toLocaleDateString('en-US', {year: 'numeric', month: 'long',
\* day: 'numeric', hour: '2-digit', minute: '2-digit'}), in local time:
\* "January 15, 2024 at 10:30 AM".  An Invalid Date gives "Invalid Date".
toLocaleDateString(date) ==
    IF date = NaN THEN <<"I", "n", "v", "a", "l", "i", "d", " ", "D", "a", "t", "e">>
    ELSE LET hour   == LocalSecondOfDay(date) \div 3600
             minute == (LocalSecondOfDay(date) % 3600) \div 60
             hour12 == IF hour % 12 = 0 THEN 12 ELSE hour % 12
         IN  MonthNames[getMonth(date) + 1] \o <<" ">>
                \o NumberToString(getDate(date)) \o <<",", " ">>
                \o NumberToString(getFullYear(date)) \o <<" ", "a", "t", " ">>
                \o TwoDigits(hour12) \o <<":">> \o TwoDigits(minute)
                \o (IF hour < 12 THEN <<" ", "A", "M">> ELSE <<" ", "P", "M">>)

(***************************************************************************)
(* formatDate (app/components/StoryCard.tsx)                               *)
(***************************************************************************)
\* calculateAnniversaryBasedDiff with the day of the month anniversary
\* clamped to the last day of the month, as the year anniversary is.
calculateAnniversaryBasedDiff_clampedMonth(startDate, endDate, unit) ==
    LET nowMidnight ==
            NewDate(getFullYear(endDate), getMonth(endDate), getDate(endDate))
    IN  IF unit = "month"
        THEN LET diff ==
                     Plus(Times(Minus(getFullYear(endDate), getFullYear(startDate)), 12),
                          Minus(getMonth(endDate), getMonth(startDate)))
                 lastDay ==
                     getDate(NewDate(getFullYear(endDate), Plus(getMonth(endDate), 1), 0))
                 anniversary ==
                     NewDate(getFullYear(endDate), getMonth(endDate),
                             MathMin(getDate(startDate), lastDay))
             IN  MathMax(IF LessThan(getTime(nowMidnight), getTime(anniversary))
                         THEN Minus(diff, 1) ELSE diff,
                         0)
        ELSE LET diff == Minus(getFullYear(endDate), getFullYear(startDate))
                 lastDayOfAnniversaryMonth ==
                     getDate(NewDate(getFullYear(endDate), Plus(getMonth(startDate), 1), 0))
                 anniversaryDay == MathMin(getDate(startDate), lastDayOfAnniversaryMonth)
                 anniversary ==
                     NewDate(getFullYear(endDate), getMonth(startDate), anniversaryDay)
             IN  MathMax(IF LessThan(getTime(nowMidnight), getTime(anniversary))
                         THEN Minus(diff, 1) ELSE diff,
                         0)

\* calculateAnniversaryBasedDiff with the day of the year anniversary
\* rolling over into the following month, as the month anniversary does.
calculateAnniversaryBasedDiff_rolledYear(startDate, endDate, unit) ==
    LET nowMidnight ==
            NewDate(getFullYear(endDate), getMonth(endDate), getDate(endDate))
    IN  IF unit = "month"
        THEN LET diff ==
                     Plus(Times(Minus(getFullYear(endDate), getFullYear(startDate)), 12),
                          Minus(getMonth(endDate), getMonth(startDate)))
                 anniversary ==
                     NewDate(getFullYear(endDate), getMonth(endDate), getDate(startDate))
             IN  MathMax(IF LessThan(getTime(nowMidnight), getTime(anniversary))
                         THEN Minus(diff, 1) ELSE diff,
                         0)
        ELSE LET diff == Minus(getFullYear(endDate), getFullYear(startDate))
                 anniversary ==
                     NewDate(getFullYear(endDate), getMonth(startDate), getDate(startDate))
             IN  MathMax(IF LessThan(getTime(nowMidnight), getTime(anniversary))
                         THEN Minus(diff, 1) ELSE diff,
                         0)

\* calculateAnniversaryBasedDiff with the two anniversaries exchanged: the
\* month anniversary clamped, the year anniversary rolling over.
calculateAnniversaryBasedDiff_exchanged(startDate, endDate, unit) ==
    IF unit = "month"
    THEN calculateAnniversaryBasedDiff_clampedMonth(startDate, endDate, unit)
    ELSE calculateAnniversaryBasedDiff_rolledYear(startDate, endDate, unit)

calculateAnniversaryBasedDiff(startDate, endDate, unit) ==
    LET nowMidnight ==
            NewDate(getFullYear(endDate), getMonth(endDate), getDate(endDate))
    IN  IF unit = "month"
        THEN LET diff ==
                     Plus(Times(Minus(getFullYear(endDate), getFullYear(startDate)), 12),
                          Minus(getMonth(endDate), getMonth(startDate)))
                 anniversary ==
                     NewDate(getFullYear(endDate), getMonth(endDate), getDate(startDate))
             IN  MathMax(IF LessThan(getTime(nowMidnight), getTime(anniversary))
                         THEN Minus(diff, 1) ELSE diff,
                         0)
        ELSE LET diff == Minus(getFullYear(endDate), getFullYear(startDate))
                 lastDayOfAnniversaryMonth ==
                     getDate(NewDate(getFullYear(endDate), Plus(getMonth(startDate), 1), 0))
                 anniversaryDay == MathMin(getDate(startDate), lastDayOfAnniversaryMonth)
                 anniversary ==
                     NewDate(getFullYear(endDate), getMonth(startDate), anniversaryDay)
             IN  MathMax(IF LessThan(getTime(nowMidnight), getTime(anniversary))
                         THEN Minus(diff, 1) ELSE diff,
                         0)

\* `${count} ${unit}${count !== 1 ? 's' : ''} ago`
AgoLabel(count, unit) ==
    NumberToString(count) \o <<" ">> \o unit \o (IF count # 1 THEN <<"s">> ELSE <<>>) \o <<" ", "a", "g", "o">>

\* The ladder with inclusive bounds.
relativeTime_inclusive(date, now) ==
    LET diffSeconds == Minus(getTime(now), getTime(date))
        diffMinutes == MathFloorDiv(diffSeconds, 60)
        diffHours   == MathFloorDiv(diffMinutes, 60)
        diffDays    == MathFloorDiv(diffHours, 24)
        diffWeeks   == MathFloorDiv(diffDays, 7)
        diffMonths  == calculateAnniversaryBasedDiff(date, now, "month")
        diffYears   == calculateAnniversaryBasedDiff(date, now, "year")
    IN  IF ~GreaterThan(diffSeconds, 60) THEN <<"J", "u", "s", "t", " ", "n", "o", "w">>
        ELSE IF ~GreaterThan(diffMinutes, 60) THEN AgoLabel(diffMinutes, <<"m", "i", "n", "u", "t", "e">>)
        ELSE IF ~GreaterThan(diffHours, 24) THEN AgoLabel(diffHours, <<"h", "o", "u", "r">>)
        ELSE IF ~GreaterThan(diffDays, 7) THEN AgoLabel(diffDays, <<"d", "a", "y">>)
        ELSE IF ~GreaterThan(diffWeeks, 4) THEN AgoLabel(diffWeeks, <<"w", "e", "e", "k">>)
        ELSE IF ~GreaterThan(diffMonths, 12) THEN AgoLabel(diffMonths, <<"m", "o", "n", "t", "h">>)
        ELSE AgoLabel(diffYears, <<"y", "e", "a", "r">>)

\* The relative time of the ladder, for a date that is not in the future.
relativeTime(date, now) ==
    LET diffSeconds == Minus(getTime(now), getTime(date))
        diffMinutes == MathFloorDiv(diffSeconds, 60)
        diffHours   == MathFloorDiv(diffMinutes, 60)
        diffDays    == MathFloorDiv(diffHours, 24)
        diffWeeks   == MathFloorDiv(diffDays, 7)
        diffMonths  == calculateAnniversaryBasedDiff(date, now, "month")
        diffYears   == calculateAnniversaryBasedDiff(date, now, "year")
    IN  IF LessThan(diffSeconds, 60) THEN <<"J", "u", "s", "t", " ", "n", "o", "w">>
        ELSE IF LessThan(diffMinutes, 60) THEN AgoLabel(diffMinutes, <<"m", "i", "n", "u", "t", "e">>)
        ELSE IF LessThan(diffHours, 24) THEN AgoLabel(diffHours, <<"h", "o", "u", "r">>)
        ELSE IF LessThan(diffDays, 7) THEN AgoLabel(diffDays, <<"d", "a", "y">>)
        ELSE IF LessThan(diffWeeks, 4) THEN AgoLabel(diffWeeks, <<"w", "e", "e", "k">>)
        ELSE IF LessThan(diffMonths, 12) THEN AgoLabel(diffMonths, <<"m", "o", "n", "t", "h">>)
        ELSE AgoLabel(diffYears, <<"y", "e", "a", "r">>)

\* formatDate without its check for a date in the future.
formatDate_withoutFutureCheck(dateString, now) ==
    IF Falsy(dateString)
    THEN [relativeTime |-> EmptyString, absoluteTime |-> EmptyString]
    ELSE [relativeTime |-> relativeTime(DateParse(dateString), now),
          absoluteTime |-> toLocaleDateString(DateParse(dateString))]

\* formatDate, called when the clock reads now.  No call of its try block
\* throws (new Date and toLocaleDateString return for an Invalid Date too),
\* so its catch block is never entered.
formatDate(dateString, now) ==
    IF Falsy(dateString)
    THEN [relativeTime |-> EmptyString, absoluteTime |-> EmptyString]
    ELSE LET date == DateParse(dateString)
         IN  IF GreaterThan(getTime(date), getTime(now))
             THEN [relativeTime |-> <<"i", "n", " ", "t", "h", "e", " ", "f", "u", "t", "u", "r", "e">>,
                   absoluteTime |-> toLocaleDateString(date)]
             ELSE [relativeTime |-> relativeTime(date, now),
                   absoluteTime |-> toLocaleDateString(date)]

\* What formatDate leaves of diffMonths and diffYears when it returns
\* before they are computed.
NotComputed == [computed |-> FALSE]

\* The constants diffMonths and diffYears of formatDate.
anniversaryDiffs(dateString, now) ==
    IF Falsy(dateString) \/ GreaterThan(getTime(DateParse(dateString)), getTime(now))
    THEN NotComputed
    ELSE [computed |-> TRUE,
          months |-> calculateAnniversaryBasedDiff(DateParse(dateString), now, "month"),
          years |-> calculateAnniversaryBasedDiff(DateParse(dateString), now, "year")]

(***************************************************************************)
(* StoryCard (app/components/StoryCard.tsx)                                *)
(***************************************************************************)
\* The characters of the markup outside ASCII, by their code points.
MinusSign == "U+2212"

PlusSign == "+"

RightArrow == "U+2192"

\* The content with the summary looked at before the rich content.
cardContent_snippetFirst(item) ==
    Or(Or(Prop(item, "contentSnippet"), Prop(item, "content")), EmptyString)

\* const content = story.content || story.contentSnippet || ''
cardContent(item) ==
    Or(Or(Prop(item, "content"), Prop(item, "contentSnippet")), EmptyString)

\* {content && (<div className=... dangerouslySetInnerHTML=... />)}: the
\* elements rendered for the content, none when it is empty.
ContentElement(className, item) ==
    IF Falsy(cardContent(item)) THEN <<>>
    ELSE <<[className |-> className, innerHTML |-> cardContent(item)]>>

\* <span className="story-date" title={formattedDate.absoluteTime}>
DateElement(formattedDate) ==
    [className |-> "story-date",
     title |-> formattedDate.absoluteTime,
     text |-> formattedDate.relativeTime]

\* The article of the list view: the title button, and the panel when the
\* accordion is expanded.
ListView(item, expanded, now) ==
    [className |-> "story-card story-card-list",
     button |-> [ariaExpanded |-> expanded,
                 ariaControls |-> <<"story-content-", Prop(item, "link")>>,
                 text |-> Prop(item, "title"),
                 icon |-> IF expanded THEN MinusSign ELSE PlusSign],
     panel |-> IF expanded
               THEN <<[content |-> ContentElement("story-accordion-content", item),
                       date |-> DateElement(formatDate(Prop(item, "pubDate"), now)),
                       link |-> [className |-> "story-link",
                                 href |-> Prop(item, "link"),
                                 text |-> <<"Read full story ", RightArrow>>]]>>
               ELSE <<>>]

\* The article of the grid view.
GridView(item, now) ==
    [className |-> "story-card",
     heading |-> [href |-> Prop(item, "link"), text |-> Prop(item, "title")],
     content |-> ContentElement("story-content", item),
     date |-> DateElement(formatDate(Prop(item, "pubDate"), now)),
     link |-> [href |-> Prop(item, "link"), text |-> <<"Read more ", RightArrow>>]]

\* What StoryCard returns.
Render(item, mode, expanded, now) ==
    IF mode = "list" THEN ListView(item, expanded, now) ELSE GridView(item, now)

\* onKeyDown toggling for Enter alone.
ToggleKeys_enterOnly == {"Enter"}

\* onKeyDown: the keys that toggle the accordion.
ToggleKeys == {"Enter", " "}

(***************************************************************************)
(* POST of the CSP report endpoint (app/api/rss/route.ts)                  *)
(*                                                                         *)
(* A JSON value carries its type: null, a boolean, a number, a string, an  *)
(* array, or an object with its properties.                                *)
(***************************************************************************)
JSONNull == [type |-> "null"]

JSONBoolean(b) == [type |-> "boolean", boolean |-> b]

JSONNumber(n) == [type |-> "number", number |-> n]

JSONString(s) == [type |-> "string", string |-> s]

JSONArray(elements) == [type |-> "array", elements |-> elements]

JSONObject(properties) == [type |-> "object", properties |-> properties]

\* The value undefined, among JSON values.
JSONUndefined == [type |-> "undefined"]

\* value[key] for a property name that is no index: a TypeError on null
\* and undefined, the property of an object that has it, and undefined
\* otherwise.
Get(value, key) ==
    IF value.type \in {"null", "undefined"} THEN Throws("TypeError")
    ELSE IF value.type = "object" /\ key \in DOMAIN value.properties
         THEN Returns(value.properties[key])
    ELSE Returns(JSONUndefined)

\* !value
Not(value) ==
    CASE value.type \in {"null", "undefined"} -> TRUE
      [] value.type = "boolean" -> ~value.boolean
      [] value.type = "number" -> value.number = 0
      [] value.type = "string" -> value.string = ""
      [] value.type \in {"array", "object"} -> FALSE

\* new NextResponse(null, {status})
NextResponseEmpty(status) == [status |-> status, body |-> Null]

\* console.warn('CSP Violation Report:', {...}) for a report that is not
\* null: the fields the report lacks are undefined.
ConsoleWarn(report) ==
    [method |-> "warn",
     message |-> "CSP Violation Report:",
     data |-> [documentUri |-> Get(report, "document-uri").value,
               violatedDirective |-> Get(report, "violated-directive").value,
               blockedUri |-> Get(report, "blocked-uri").value,
               sourceFile |-> Get(report, "source-file").value,
               lineNumber |-> Get(report, "line-number").value,
               columnNumber |-> Get(report, "column-number").value,
               timestamp |-> "now"]]

\* console.error('Error processing CSP report:', error)
ConsoleError(error) ==
    [method |-> "error", message |-> "Error processing CSP report:", error |-> error]

\* The catch block of POST.
POSTCatch(error) ==
    [response |-> NextResponseEmpty(204), console |-> <<ConsoleError(error)>>]

\* POST, for what request.json() settles with: the response, and what is
\* written to the console.
POSTResult(json) ==
    IF json.threw THEN POSTCatch(json.message)
    ELSE LET body == json.value
             entry == Get(body, "csp-report")
         IN  IF entry.threw THEN POSTCatch(entry.message)
             ELSE IF Not(entry.value)
                  THEN [response |-> NextResponseJson([error |-> "Invalid CSP report format"], 400),
                        console |-> <<>>]
             ELSE [response |-> NextResponseEmpty(204),
                   console |-> <<ConsoleWarn(entry.value)>>]

(***************************************************************************)
(* middleware (middleware.ts)                                              *)
(***************************************************************************)
\* array.join(separator)
RECURSIVE Join(_, _)
Join(array, separator) ==
    IF array = <<>> THEN <<>>
    ELSE IF Len(array) = 1 THEN array[1]
    ELSE array[1] \o separator \o Join(Tail(array), separator)

generateCSPHeader(isDevelopment, reportUri) ==
    LET directives ==
            << <<"d", "e", "f", "a", "u", "l", "t", "-", "s", "r", "c", " ", "'", "s", "e", "l", "f", "'">>,
               IF isDevelopment THEN <<"s", "c", "r", "i", "p", "t", "-", "s", "r", "c", " ", "'", "s", "e", "l", "f", "'", " ", "'", "u", "n", "s", "a", "f", "e", "-", "e", "v", "a", "l", "'", " ", "'", "u", "n", "s", "a", "f", "e", "-", "i", "n", "l", "i", "n", "e", "'">>
               ELSE <<"s", "c", "r", "i", "p", "t", "-", "s", "r", "c", " ", "'", "s", "e", "l", "f", "'", " ", "'", "u", "n", "s", "a", "f", "e", "-", "i", "n", "l", "i", "n", "e", "'">>,
               <<"s", "t", "y", "l", "e", "-", "s", "r", "c", " ", "'", "s", "e", "l", "f", "'", " ", "'", "u", "n", "s", "a", "f", "e", "-", "i", "n", "l", "i", "n", "e", "'">>,
               <<"i", "m", "g", "-", "s", "r", "c", " ", "'", "s", "e", "l", "f", "'", " ", "h", "t", "t", "p", "s", ":", "/", "/", "w", "w", "w", ".", "c", "b", "c", ".", "c", "a", " ", "h", "t", "t", "p", "s", ":", "/", "/", "i", ".", "c", "b", "c", ".", "c", "a", " ", "h", "t", "t", "p", "s", ":", "/", "/", "*", ".", "c", "b", "c", ".", "c", "a", " ", "d", "a", "t", "a", ":">>,
               <<"f", "o", "n", "t", "-", "s", "r", "c", " ", "'", "s", "e", "l", "f", "'", " ", "d", "a", "t", "a", ":">>,
               <<"c", "o", "n", "n", "e", "c", "t", "-", "s", "r", "c", " ", "'", "s", "e", "l", "f", "'">>,
               <<"f", "r", "a", "m", "e", "-", "s", "r", "c", " ", "'", "n", "o", "n", "e", "'">>,
               <<"b", "a", "s", "e", "-", "u", "r", "i", " ", "'", "s", "e", "l", "f", "'">>,
               <<"f", "o", "r", "m", "-", "a", "c", "t", "i", "o", "n", " ", "'", "n", "o", "n", "e", "'">>,
               <<"u", "p", "g", "r", "a", "d", "e", "-", "i", "n", "s", "e", "c", "u", "r", "e", "-", "r", "e", "q", "u", "e", "s", "t", "s">> >>
                \o (IF Falsy(reportUri) THEN <<>> ELSE <<<<"r", "e", "p", "o", "r", "t", "-", "u", "r", "i", " ">> \o reportUri>>)
    IN  Join(directives, <<";", " ">>)

\* NextResponse.next(): the headers of a response that lets the request
\* through.
NextResponseNext == [name \in {"x-middleware-next"} |-> <<"1">>]

\* headers.set(name, value)
HeadersSet(headers, name, value) ==
    [n \in DOMAIN headers \cup {name} |-> IF n = name THEN value ELSE headers[n]]

\* The additional security headers, set one after the other.
SecurityHeaders(headers) ==
    HeadersSet(
        HeadersSet(
            HeadersSet(
                HeadersSet(
                    HeadersSet(headers, "X-Content-Type-Options", <<"n", "o", "s", "n", "i", "f", "f">>),
                    "X-Frame-Options", <<"D", "E", "N", "Y">>),
                "X-XSS-Protection", <<"1", ";", " ", "m", "o", "d", "e", "=", "b", "l", "o", "c", "k">>),
            "Referrer-Policy", <<"s", "t", "r", "i", "c", "t", "-", "o", "r", "i", "g", "i", "n", "-", "w", "h", "e", "n", "-", "c", "r", "o", "s", "s", "-", "o", "r", "i", "g", "i", "n">>),
        "Permissions-Policy", <<"g", "e", "o", "l", "o", "c", "a", "t", "i", "o", "n", "=", "(", ")", ",", " ", "m", "i", "c", "r", "o", "p", "h", "o", "n", "e", "=", "(", ")", ",", " ", "c", "a", "m", "e", "r", "a", "=", "(", ")">>)

\* middleware setting the report-only header in every mode but 'enforce'.
middleware_elseReportOnly(env) ==
    LET cspHeader ==
            generateCSPHeader(Prop(env, "NODE_ENV") = <<"d", "e", "v", "e", "l", "o", "p", "m", "e", "n", "t">>,
                              Or(Prop(env, "CSP_REPORT_URI"), <<"/", "a", "p", "i", "/", "c", "s", "p", "-", "r", "e", "p", "o", "r", "t">>))
    IN  SecurityHeaders(
            IF Or(Prop(env, "CSP_MODE"), <<"r", "e", "p", "o", "r", "t", "-", "o", "n", "l", "y">>) = <<"e", "n", "f", "o", "r", "c", "e">>
            THEN HeadersSet(NextResponseNext, "Content-Security-Policy", cspHeader)
            ELSE HeadersSet(NextResponseNext, "Content-Security-Policy-Report-Only", cspHeader))

\* middleware: the headers of the response it returns, for the environment
\* of the process.
middleware(env) ==
    LET response0 == NextResponseNext
        isDevelopment == Prop(env, "NODE_ENV") = <<"d", "e", "v", "e", "l", "o", "p", "m", "e", "n", "t">>
        cspMode == Or(Prop(env, "CSP_MODE"), <<"r", "e", "p", "o", "r", "t", "-", "o", "n", "l", "y">>)
        reportUri == Or(Prop(env, "CSP_REPORT_URI"), <<"/", "a", "p", "i", "/", "c", "s", "p", "-", "r", "e", "p", "o", "r", "t">>)
        cspHeader == generateCSPHeader(isDevelopment, reportUri)
        response1 ==
            IF cspMode = <<"e", "n", "f", "o", "r", "c", "e">>
            THEN HeadersSet(response0, "Content-Security-Policy", cspHeader)
            ELSE IF cspMode = <<"r", "e", "p", "o", "r", "t", "-", "o", "n", "l", "y">>
            THEN HeadersSet(response0, "Content-Security-Policy-Report-Only", cspHeader)
            ELSE response0
    IN  SecurityHeaders(response1)

(***************************************************************************)
(***************************************************************************)
(* optimizeImagesInHTML (app/utils/imageOptimization.ts)                   *)
(***************************************************************************)
\* String.prototype.includes.
includes(s, searchString) ==
    \E i \in 1..(Len(s) - Len(searchString) + 1) :
        SubSeq(s, i, i + Len(searchString) - 1) = searchString

\* String.prototype.trim.
trim(s) ==
    LET inked == {i \in 1..Len(s) : s[i] \notin WhiteSpace}
    IN  IF inked = {} THEN EmptyString
        ELSE SubSeq(s, CHOOSE i \in inked : \A k \in inked : i <= k,
                       CHOOSE j \in inked : \A k \in inked : k <= j)

\* (match, attributes) => ..., the replacer of html.replace.
replacer(match, attributes) ==
    IF Falsy(attributes) THEN match
    ELSE IF includes(attributes, <<"l", "o", "a", "d", "i", "n", "g", "=">>) THEN match
    ELSE IF ~includes(attributes, <<"s", "r", "c", "=">>) THEN match
    ELSE LET trimmed == trim(attributes)
             withLoading ==
                 IF ~includes(trimmed, <<"l", "o", "a", "d", "i", "n", "g", "=">>)
                 THEN trimmed \o <<" ", "l", "o", "a", "d", "i", "n", "g", "=", "\"", "l", "a", "z", "y", "\"">> ELSE trimmed
             withDecoding ==
                 IF ~includes(withLoading, <<"d", "e", "c", "o", "d", "i", "n", "g", "=">>)
                 THEN withLoading \o <<" ", "d", "e", "c", "o", "d", "i", "n", "g", "=", "\"", "a", "s", "y", "n", "c", "\"">> ELSE withLoading
             optimizedAttributes ==
                 IF ~includes(withDecoding, <<"a", "l", "t", "=">>)
                 THEN withDecoding \o <<" ", "a", "l", "t", "=", "\"", "\"">> ELSE withDecoding
         IN  <<"<", "i", "m", "g">> \o optimizedAttributes \o <<">">>

\* html.replace(/<img([^>]*)>/gi, replacer) from position i on: the
\* leftmost match is replaced and the search goes on behind it.
RECURSIVE replaceImgTags(_, _)
replaceImgTags(html, i) ==
    IF i > Len(html) THEN EmptyString
    ELSE IF /\ LiteralAt(html, i, <<"<", "i", "m", "g">>, TRUE)
            /\ \E j \in (i + 4)..Len(html) : html[j] = ">"
         THEN LET end == CHOOSE j \in (i + 4)..Len(html) :
                             /\ html[j] = ">"
                             /\ \A k \in (i + 4)..(j - 1) : html[k] # ">"
              IN  replacer(SubSeq(html, i, end), SubSeq(html, i + 4, end - 1))
                      \o replaceImgTags(html, end + 1)
         ELSE <<html[i]>> \o replaceImgTags(html, i + 1)

\* optimizeImagesInHTML.  Nothing in its try block throws.
optimizeImagesInHTML(html) ==
    IF Falsy(html) THEN Or(html, EmptyString)
    ELSE replaceImgTags(html, 1)

(* Home (app/page.tsx)                                                     *)
(*                                                                         *)
(* The state of the component is a record of its five useState values.     *)
(* What a fetch of /api/rss settles with is the status of the response and *)
(* the data response.json() gives, or the error one of the two throws.     *)
(***************************************************************************)
\* The value null where a string is expected: the error of Home, and what
\* localStorage.getItem returns for a key that is not there.
NullString == <<"null">>

\* useState<ViewMode>(() => {...}) in the browser, for what
\* localStorage.getItem('viewMode') returns.
initialViewMode_unchecked(saved) ==
    IF saved = NullString \/ Falsy(saved) THEN <<"g", "r", "i", "d">> ELSE saved

initialViewMode(saved) ==
    IF saved = <<"g", "r", "i", "d">> \/ saved = <<"l", "i", "s", "t">> THEN saved ELSE <<"g", "r", "i", "d">>

\* The state of Home when it mounts.
initialHome(saved) ==
    [stories |-> <<>>,
     loading |-> TRUE,
     error |-> NullString,
     refreshing |-> FALSE,
     viewMode |-> initialViewMode(saved)]

\* fetchStories up to its first await: setError(null), and the request is
\* sent.
fetchStoriesStart_keepError(h) == h

fetchStoriesStart(h) == [h EXCEPT !.error = NullString]

\* The finally block of fetchStories.
finallyBlock_keepRefreshing(h) == [h EXCEPT !.loading = FALSE]

finallyBlock(h) == [h EXCEPT !.loading = FALSE, !.refreshing = FALSE]

\* The catch block of fetchStories.
catchBlock(h) ==
    [h EXCEPT !.error =
        <<"F", "a", "i", "l", "e", "d", " ", "t", "o", " ", "c", "o", "n", "n", "e", "c", "t", " ", "t", "o", " ", "t", "h", "e", " ", "s", "e", "r", "v", "e", "r", ".", " ", "P", "l", "e", "a", "s", "e", " ", "c", "h", "e", "c", "k", " ", "y", "o", "u", "r", " ", "i", "n", "t", "e", "r", "n", "e", "t", " ", "c", "o", "n", "n", "e", "c", "t", "i", "o", "n", " ", "a", "n", "d", " ", "t", "r", "y", " ", "a", "g", "a", "i", "n", ".">>]

\* fetchStories from its first await on, for what the fetch settles with.
\* data.items is an array when the data has it, and an array is truthy
\* even when it is empty; reading a property of null throws.
fetchStoriesSettled(h, outcome) ==
    finallyBlock(
        IF outcome.threw THEN catchBlock(h)
        ELSE LET status == outcome.value.status
                 data == outcome.value.data
             IN  IF data = Null THEN catchBlock(h)
                 ELSE IF data.success /\ "items" \in DOMAIN data
                      THEN [h EXCEPT !.stories = data.items]
                 ELSE IF status = 429
                      THEN [h EXCEPT !.error =
                               <<"T", "o", "o", " ", "m", "a", "n", "y", " ", "r", "e", "q", "u", "e", "s", "t", "s", ".", " ", "P", "l", "e", "a", "s", "e", " ", "w", "a", "i", "t", " ", "a", " ", "m", "o", "m", "e", "n", "t", " ", "b", "e", "f", "o", "r", "e", " ", "r", "e", "f", "r", "e", "s", "h", "i", "n", "g", ".">>]
                 ELSE IF status >= 500
                      THEN [h EXCEPT !.error =
                               <<"U", "n", "a", "b", "l", "e", " ", "t", "o", " ", "f", "e", "t", "c", "h", " ", "s", "t", "o", "r", "i", "e", "s", ".", " ", "T", "h", "e", " ", "s", "e", "r", "v", "e", "r", " ", "m", "a", "y", " ", "b", "e", " ", "t", "e", "m", "p", "o", "r", "a", "r", "i", "l", "y", " ", "u", "n", "a", "v", "a", "i", "l", "a", "b", "l", "e", ".", " ", "P", "l", "e", "a", "s", "e", " ", "t", "r", "y", " ", "a", "g", "a", "i", "n", " ", "i", "n", " ", "a", " ", "f", "e", "w", " ", "m", "o", "m", "e", "n", "t", "s", ".">>]
                 ELSE IF status = 404
                      THEN [h EXCEPT !.error = <<"R", "S", "S", " ", "f", "e", "e", "d", " ", "n", "o", "t", " ", "f", "o", "u", "n", "d", ".", " ", "P", "l", "e", "a", "s", "e", " ", "c", "h", "e", "c", "k", " ", "b", "a", "c", "k", " ", "l", "a", "t", "e", "r", ".">>]
                 ELSE [h EXCEPT !.error =
                          Or(data.error,
                             <<"F", "a", "i", "l", "e", "d", " ", "t", "o", " ", "f", "e", "t", "c", "h", " ", "s", "t", "o", "r", "i", "e", "s", ".", " ", "P", "l", "e", "a", "s", "e", " ", "c", "h", "e", "c", "k", " ", "y", "o", "u", "r", " ", "c", "o", "n", "n", "e", "c", "t", "i", "o", "n", " ", "a", "n", "d", " ", "t", "r", "y", " ", "a", "g", "a", "i", "n", ".">>)])

\* handleRefresh up to the first await of fetchStories.
handleRefresh(h) == fetchStoriesStart([h EXCEPT !.refreshing = TRUE])

\* What Home renders: the skeletons, the error view or the main view.
HomeView(h) ==
    IF h.loading THEN "skeleton"
    ELSE IF h.error # NullString /\ h.error # EmptyString THEN "error"
    ELSE "main"

\* disabled={refreshing} of the 'Refresh Stories' button.
RefreshDisabled_never(h) == FALSE

RefreshDisabled(h) == h.refreshing

\* onClick of the view toggle button: the new mode.
newMode(h) == IF h.viewMode = <<"g", "r", "i", "d">> THEN <<"l", "i", "s", "t">> ELSE <<"g", "r", "i", "d">>

(* Inputs                                                                  *)
(***************************************************************************)
\* The longest run of white space between a name and the character after it.
MaxGap == 1

\* The most items a feed of the model has.
MaxItems == 3

\* s with its letters in upper case at the odd positions, lower at the even.
MixedCase(s) ==
    [i \in 1..Len(s) |->
        IF i % 2 = 1 THEN toUpperCaseChar(s[i]) ELSE toLowerCaseChar(s[i])]

Cased(s, casing) ==
    CASE casing = "asis"  -> s
      [] casing = "upper" -> toUpperCase(s)
      [] casing = "mixed" -> MixedCase(s)

Casings == {"asis", "upper", "mixed"}

\* What a content starts with: nothing, markup, or word characters that
\* run into the name that follows.
Prefixes == {<<>>, <<"<", "a", " ">>, <<"b", "u", "t", "t">>, <<"_">>, <<"a", ".">>, <<"<", "p", ">">>}

\* The events whose inline handler attributes are enumerated: click, error,
\* load, ..., unload, drag with its variants.
EventNames == {
    <<"c", "l", "i", "c", "k">>, <<"e", "r", "r", "o", "r">>, <<"l", "o", "a", "d">>, <<"m", "o", "u", "s", "e", "o", "v", "e", "r">>, <<"m", "o", "u", "s", "e", "o", "u", "t">>, <<"f", "o", "c", "u", "s">>, <<"b", "l", "u", "r">>,
    <<"c", "h", "a", "n", "g", "e">>, <<"s", "u", "b", "m", "i", "t">>, <<"k", "e", "y", "d", "o", "w", "n">>, <<"k", "e", "y", "p", "r", "e", "s", "s">>, <<"k", "e", "y", "u", "p">>, <<"a", "b", "o", "r", "t">>,
    <<"b", "e", "f", "o", "r", "e", "u", "n", "l", "o", "a", "d">>, <<"d", "b", "l", "c", "l", "i", "c", "k">>, <<"d", "r", "a", "g">>, <<"d", "r", "a", "g", "e", "n", "d">>, <<"d", "r", "a", "g", "e", "n", "t", "e", "r">>,
    <<"d", "r", "a", "g", "l", "e", "a", "v", "e">>, <<"d", "r", "a", "g", "o", "v", "e", "r">>, <<"d", "r", "a", "g", "s", "t", "a", "r", "t">>, <<"d", "r", "o", "p">>, <<"i", "n", "p", "u", "t">>, <<"i", "n", "v", "a", "l", "i", "d">>,
    <<"m", "o", "u", "s", "e", "d", "o", "w", "n">>, <<"m", "o", "u", "s", "e", "m", "o", "v", "e">>, <<"m", "o", "u", "s", "e", "u", "p">>, <<"r", "e", "s", "e", "t">>, <<"r", "e", "s", "i", "z", "e">>, <<"s", "c", "r", "o", "l", "l">>,
    <<"s", "e", "l", "e", "c", "t">>, <<"u", "n", "l", "o", "a", "d">> }

\* The enumerated event-handler attribute names: onclick, ..., onunload.
HandlerNames == {<<"o", "n">> \o e : e \in EventNames}

\* The names the rules look for, and names that are close to them.
Names ==
    HandlerNames
        \cup {<<"<", "s", "c", "r", "i", "p", "t">>, <<"j", "a", "v", "a", "s", "c", "r", "i", "p", "t">>, <<"e", "v", "a", "l">>, <<"s", "e", "t", "T", "i", "m", "e", "o", "u", "t">>, <<"s", "e", "t", "I", "n", "t", "e", "r", "v", "a", "l">>}
        \cup {<<"o", "n", "c", "l", "i", "c">>, <<"o", "n", "t", "o", "g", "g", "l", "e">>, <<"s", "c", "r", "i", "p", "t">>, <<"e", "v", "a", "l", "u", "a", "t", "e">>, <<"o", "n">>}

\* The runs of white space of at most n characters.
RECURSIVE Gaps(_)
Gaps(n) ==
    IF n = 0 THEN {<<>>}
    ELSE Gaps(n - 1) \cup {g \o <<c>> : g \in Gaps(n - 1), c \in {" ", "\n"}}

\* What follows the name and the white space.
Suffixes == {<<>>, <<"=">>, <<"(", "\"", "a", "\"", ")">>, <<":", "a">>, <<">">>, <<"x", "=">>}

\* The contents handed to the classifier.
ContentInputs ==
    {p \o Cased(n, c) \o g \o s :
        p \in Prefixes, n \in Names, c \in Casings, g \in Gaps(MaxGap), s \in Suffixes}

GoodLink == <<"h", "t", "t", "p", "s", ":", "/", "/", "e", ".", "c", "a", "/", "a">>

OtherLink == <<"m", "a", "i", "l", "t", "o", ":", "a", "@", "e", ".", "c", "a">>

GoodDate == <<"2", "0", "2", "4", "-", "0", "1", "-", "1", "5", "T", "1", "0", ":", "3", "0", ":", "0", "0", "Z">>

OtherDate == <<"2", "0", "2", "3", "-", "0", "1", "-", "3", "1">>

Item(title, link, pubDate, contentSnippet, text) ==
    Object([title |-> title, link |-> link, pubDate |-> pubDate,
            contentSnippet |-> contentSnippet, content |-> text])

\* The items rss-parser hands over: safe and unsafe contents, in the rich
\* content or in the summary, and titles, links and dates that are missing,
\* empty, malformed or well-formed.
FeedItems == {
    Item(<<"S", "a", "f", "e">>, GoodLink, GoodDate, <<"o", "k">>, <<"<", "p", ">", "o", "k", "<", "/", "p", ">">>),
    Item(Undefined, OtherLink, OtherDate, <<"o", "k", "2">>, Undefined),
    Item(<<"B", "a", "d">>, GoodLink, GoodDate, <<"b", "a", "d">>, <<"<", "s", "c", "r", "i", "p", "t", ">", "b", "a", "d">>),
    Item(<<"S", "n", "i", "p">>, GoodLink, GoodDate, <<"J", "a", "v", "a", "S", "c", "r", "i", "p", "t", ":", "a">>, EmptyString),
    Item(<<"M", "i", "x">>, GoodLink, OtherDate, <<"<", "S", "C", "R", "I", "P", "T", " ", ">">>, <<"<", "b", ">", "o", "k", "<", "/", "b", ">">>),
    Item(EmptyString, Undefined, EmptyString, Undefined, Undefined),
    Item(<<"B", "a", "d", "L", "i", "n", "k">>, <<"n", "o", "t", "-", "a", "-", "u", "r", "l">>, GoodDate, <<"o", "k">>, Undefined),
    Item(<<"N", "o", "H", "o", "s", "t">>, <<"h", "t", "t", "p", ":", "/", "/">>, GoodDate, <<"o", "k">>, Undefined),
    Item(<<"B", "a", "d", "D", "a", "t", "e">>, GoodLink, <<"n", "o", "t", "-", "a", "-", "d", "a", "t", "e">>, <<"o", "k">>, Undefined) }

\* The sequences of at most n elements of S.
RECURSIVE SeqsUpTo(_, _)
SeqsUpTo(S, n) ==
    IF n = 0 THEN {<<>>}
    ELSE SeqsUpTo(S, n - 1) \cup {s \o <<x>> : s \in SeqsUpTo(S, n - 1), x \in S}

\* The title and description of a feed: both there, or both missing.
FeedHeads == {<<<<"C", "B", "C">>, <<"T", "o", "p">>>>, <<Undefined, Undefined>>}

\* What parser.parseURL settles with: a feed, or a rejection.
ParseURLOutcomes ==
    {[resolved |-> FALSE]}
        \cup {[resolved |-> TRUE,
               feed |-> Object([title |-> h[1], description |-> h[2]])
                            @@ [items |-> list]] :
                h \in FeedHeads, list \in SeqsUpTo(FeedItems, MaxItems)}

\* The years of the clock after the first year of the stories.
MaxYears == 2

FirstYear == NumberAt(OtherDate, 1, 4)

\* The days of month m (1 for January) of year y.
DaysInMonth(y, m) == MonthStart(y, m) - MonthStart(y, m - 1)

\* "2024-01-15": toISOString of a day, up to the date.
ISODate(y, m, d) ==
    DecimalDigits(y) \o <<"-">> \o TwoDigits(m) \o <<"-">> \o TwoDigits(d)

\* The days stories are published on: mid-month and the ends of months of
\* 31, 30, 29 and 28 days, in a common year and in a leap year.
StoryDays ==
    {<<y, m, d>> \in (FirstYear..(FirstYear + 1)) \X {1, 2, 8} \X {15, 28, 29, 30, 31} :
        d <= DaysInMonth(y, m)}

\* The timestamps of stories: in the morning and just after midnight UTC
\* (the evening before in a time zone behind UTC), and a day without a time.
StoryTimestamps ==
    {ISODate(s[1], s[2], s[3]) \o t : s \in StoryDays, t \in {<<"T", "1", "0", ":", "3", "0", ":", "0", "0", "Z">>, <<"T", "0", "2", ":", "0", "0", ":", "0", "0", "Z">>}}
        \cup {GoodDate, OtherDate}

\* Timestamps that are no date, and a story without one.
OtherTimestamps == {<<"n", "o", "t", "-", "a", "-", "d", "a", "t", "e">>, <<"y", "e", "s", "t", "e", "r", "d", "a", "y">>, <<"2", "0", "2", "4", "-", "1", "3", "-", "4", "5">>, EmptyString, Undefined}

\* The readings of the clock on the days around the ends of months.
ClockDays ==
    {<<y, m, d>> \in (FirstYear..(FirstYear + MaxYears)) \X {1, 2, 3, 9}
                        \X {1, 28, 29, 30, 31} :
        d <= DaysInMonth(y, m)}

ClockReadings ==
    {MakeDay(c[1], c[2] - 1, c[3]) * SecondsPerDay + s : c \in ClockDays, s \in {0, 43200}}

\* The seconds between a story and a reading of the clock next to it: on
\* both sides of every step of the ladder, and before the story.
Elapsed ==
    {0, 1, 45, 59, 60, 61, 119, 120, 3599, 3600, 3601, 7199, 7200, 86399, 86400,
     2 * 86400 - 1, 2 * 86400, 7 * 86400 - 1, 7 * 86400, 14 * 86400 - 1, 14 * 86400,
     28 * 86400 - 1, 28 * 86400, 0 - 1, 0 - 60, 0 - 3600, 0 - 86400, 0 - 400 * 86400}

\* The readings of the clock tried with a timestamp.
ClockReadingsFor(ts) ==
    ClockReadings
        \cup (IF Falsy(ts) \/ DateParse(ts) = NaN THEN {}
              ELSE {DateParse(ts) + e : e \in Elapsed})

\* Local time behind UTC, in minutes: UTC, and Toronto in winter.
TimeZoneOffsets == {0, 300}

(***************************************************************************)
\* The activations of the title button the model follows.
MaxActivations == 3

\* The stories a card is given: the story of the component's tests, with
\* its content, summary and date there, empty or missing.
CardStories ==
    {Item(<<"T", "e", "s", "t", " ", "S", "t", "o", "r", "y", " ", "T", "i", "t", "l", "e">>, GoodLink, d, s, c) :
        d \in {GoodDate, OtherDate, EmptyString},
        s \in {<<"T", "h", "i", "s", " ", "i", "s", " ", "t", "e", "s", "t", " ", "c", "o", "n", "t", "e", "n", "t">>, Undefined},
        c \in {<<"<", "p", ">", "T", "h", "i", "s", " ", "i", "s", " ", "t", "e", "s", "t", " ", "c", "o", "n", "t", "e", "n", "t", "<", "/", "p", ">">>, EmptyString, Undefined}}

\* The keys pressed on the title button.
Keys == {"Enter", " ", "Tab", "a"}

\* The reading of the clock when the cards are rendered.
CardClock == DateParse(GoodDate) + 3600

\* The subsets of a set of keys the model follows: each key there or not.
RequiredFields == {"document-uri", "violated-directive", "blocked-uri"}

OptionalFields == {"source-file", "line-number", "column-number"}

\* The value of a field of the report of the route's tests.
FieldValue(key) ==
    CASE key = "document-uri" -> JSONString("http://localhost:3000/")
      [] key = "violated-directive" -> JSONString("script-src")
      [] key = "blocked-uri" -> JSONString("inline")
      [] key = "source-file" -> JSONString("http://localhost:3000/")
      [] key = "line-number" -> JSONNumber(10)
      [] key = "column-number" -> JSONNumber(5)

\* Reports with any of their fields missing.
Reports ==
    {JSONObject([key \in fields |-> FieldValue(key)]) :
        fields \in SUBSET (RequiredFields \cup OptionalFields)}

\* JSON values that are no report.
OtherValues ==
    {JSONNull, JSONBoolean(FALSE), JSONBoolean(TRUE), JSONNumber(0), JSONNumber(1),
     JSONString(""), JSONString("x"), JSONArray(<<>>),
     JSONObject([invalid |-> JSONString("data")])}

\* The bodies of the requests: no JSON, a JSON value that is no object, an
\* object without a 'csp-report' entry, and objects with one.
RequestBodies ==
    {Throws("SyntaxError")}
        \cup {Returns(v) : v \in OtherValues}
        \cup {Returns(JSONObject([k \in {"csp-report"} |-> v])) : v \in OtherValues \cup Reports}

\* The values of the environment variables the middleware reads: not set,
\* empty, the documented values and others.
NodeEnvs == {Undefined, <<"d", "e", "v", "e", "l", "o", "p", "m", "e", "n", "t">>, <<"p", "r", "o", "d", "u", "c", "t", "i", "o", "n">>, <<"t", "e", "s", "t">>}

CspModes ==
    {Undefined, EmptyString, <<"e", "n", "f", "o", "r", "c", "e">>, <<"r", "e", "p", "o", "r", "t", "-", "o", "n", "l", "y">>, <<"d", "i", "s", "a", "b", "l", "e", "d">>, <<"E", "N", "F", "O", "R", "C", "E">>, <<"o", "f", "f">>}

CspReportUris == {Undefined, EmptyString, <<"/", "a", "p", "i", "/", "c", "s", "p", "-", "r", "e", "p", "o", "r", "t">>, <<"h", "t", "t", "p", "s", ":", "/", "/", "r", ".", "e", ".", "c", "a", "/", "c", "s", "p">>}

ProcessEnvs ==
    {Object([NODE_ENV |-> n, CSP_MODE |-> m, CSP_REPORT_URI |-> u]) :
        n \in NodeEnvs, m \in CspModes, u \in CspReportUris}

\* Links the URL parser accepts: the links of the type tests, a scheme
\* without a host, and a scheme in capitals.
ParseableLinks ==
    {GoodLink, OtherLink, <<"h", "t", "t", "p", ":", "/", "/", "e", ".", "c", "a", "/", "s", "t", "o", "r", "y">>, <<"h", "t", "t", "p", "s", ":", "/", "/", "e", ".", "c", "a">>, <<"f", "t", "p", ":", "/", "/", "e", ".", "c", "a", "/", "f">>,
     <<"H", "T", "T", "P", ":", "/", "/", "E", ".", "C", "A">>, <<"x", ":", "a">>}

\* Links it rejects: no scheme, a scheme that starts with a digit, and a
\* web scheme without a host.
UnparseableLinks ==
    {<<"n", "o", "t", "-", "a", "-", "u", "r", "l">>, <<"h", "t", "t", "p", ":", "/", "/">>, <<"h", "t", "t", "p", "s", ":">>, <<"/", "/", "e", ".", "c", "a", "/", "a">>, <<"/", "s", "t", "o", "r", "y">>, <<"e", ".", "c", "a">>, <<"1", "x", ":", "a">>, <<":", "a">>}

\* Dates in the date-time string format, and texts that are no date.
ParseableDates == {GoodDate, OtherDate, <<"2", "0", "2", "4", "-", "0", "1", "-", "1", "5">>, <<"2", "0", "2", "4", "-", "0", "2", "-", "2", "9", "T", "2", "3", ":", "5", "9", ":", "5", "9", "Z">>, <<"1", "9", "9", "9", "-", "1", "2", "-", "3", "1">>}

UnparseableDates == {<<"n", "o", "t", "-", "a", "-", "d", "a", "t", "e">>, <<"y", "e", "s", "t", "e", "r", "d", "a", "y">>, <<"s", "o", "o", "n">>, <<"2", "0", "2", "4", "-", "1", "3", "-", "4", "5">>, <<"T", "1", "0", ":", "3", "0", ":", "0", "0", "Z">>}

\* What the factories and the converters are called with.
Candidates ==
    [link : ParseableLinks \cup UnparseableLinks \cup {EmptyString, Undefined},
     date : ParseableDates \cup UnparseableDates \cup {EmptyString, Undefined}]

\* The fetches Home starts after one loading of the page, in the model.
MaxFetches == 3

\* What localStorage holds under 'viewMode' when the page is first loaded.
SavedViewModes == {NullString, EmptyString, <<"g", "r", "i", "d">>, <<"l", "i", "s", "t">>, <<"b", "a", "n", "a", "n", "a">>}

\* The items of a response.
ItemLists ==
    {<<>>,
     <<Item(<<"O", "n", "e">>, GoodLink, GoodDate, <<"o", "k">>, <<"<", "p", ">", "o", "k", "<", "/", "p", ">">>)>>,
     <<Item(<<"O", "n", "e">>, GoodLink, GoodDate, <<"o", "k">>, <<"<", "p", ">", "o", "k", "<", "/", "p", ">">>),
       Item(<<"T", "w", "o">>, OtherLink, OtherDate, <<"o", "k", "2">>, Undefined)>>}

\* The data of a response: what GET answers, and objects without items or
\* without an error message.
ResponseData ==
    {[success |-> TRUE, items |-> list, error |-> Undefined] : list \in ItemLists}
        \cup {[success |-> b, error |-> e] :
                b \in BOOLEAN, e \in {Undefined, <<"F", "a", "i", "l", "e", "d", " ", "t", "o", " ", "f", "e", "t", "c", "h", " ", "R", "S", "S", " ", "f", "e", "e", "d">>}}
        \cup {Null}

\* What a fetch settles with: a response of some status with its data, or
\* the failure of the network or of response.json().
FetchOutcomes ==
    {Returns([status |-> s, data |-> d]) : s \in {200, 400, 404, 429, 500, 503}, d \in ResponseData}
        \cup {Throws("TypeError: Failed to fetch"), Throws("SyntaxError")}

\* Inputs of optimizeImagesInHTML: the attributes of an img tag, with the
\* white space that separates them from the tag name.
ImgAttributes == {
    <<" ", "s", "r", "c", "=", "\"", "a", "\"">>,
    <<" ", "s", "r", "c", "=", "\"", "a", "\"", " ", "a", "l", "t", "=", "\"", "x", "\"">>,
    <<" ", "a", "l", "t", "=", "\"", "x", "\"", " ", "s", "r", "c", "=", "\"", "a", "\"">>,
    <<" ", "s", "r", "c", "=", "\"", "a", "\"", " ", "d", "e", "c", "o", "d", "i", "n", "g", "=", "\"", "s", "y", "n", "c", "\"">>,
    <<" ", "s", "r", "c", "=", "\"", "a", "\"", " ", "a", "l", "t", "=", "\"", "x", "\"", " ", "d", "e", "c", "o", "d", "i", "n", "g", "=", "\"", "s", "y", "n", "c", "\"">>,
    <<" ", "s", "r", "c", "=", "\"", "a", "\"", " ", "/">>,
    <<" ", " ", "s", "r", "c", "=", "\"", "a", "\"", " ">>,
    <<" ", "s", "r", "c", "=", "\"", "a", "\"", " ", "l", "o", "a", "d", "i", "n", "g", "=", "\"", "e", "a", "g", "e", "r", "\"">>,
    <<" ", "l", "o", "a", "d", "i", "n", "g", "=", "\"", "l", "a", "z", "y", "\"", " ", "s", "r", "c", "=", "\"", "a", "\"">>,
    <<" ", "a", "l", "t", "=", "\"", "x", "\"">>,
    <<" ", "w", "i", "d", "t", "h", "=", "\"", "1", "\"">>,
    EmptyString}

\* The tag name as feeds write it.
ImgNames == {<<"<", "i", "m", "g">>, <<"<", "I", "M", "G">>}

\* Text without an img tag.
TextsOutside == {EmptyString, <<"<", "p", ">", "a">>, <<"b", "<", "/", "p", ">">>, <<"a", " ", ">", " ", "b">>}

ImgTags == {name \o attributes \o <<">">> : name \in ImgNames, attributes \in ImgAttributes}

HtmlInputs ==
    {before \o tag \o after : before \in TextsOutside, tag \in ImgTags, after \in TextsOutside}
        \cup {one \o <<"<", "b", "r", ">">> \o other : one \in ImgTags, other \in ImgTags}
        \cup TextsOutside
        \cup {Undefined, <<"<", "i", "m", "g", " ", "s", "r", "c", "=", "\"", "a", "\"">>}

\* The stories of a feed whose cards are followed on the page.
MaxStories == 2

\* What parser.parseURL settles with, for the feeds of the page.
PageOutcomes ==
    {outcome \in ParseURLOutcomes :
        outcome.resolved => Len(outcome.feed.items) <= MaxStories}

(* The state machines                                                      *)
(***************************************************************************)
\* Before containsJavaScript has returned.
Pending == <<>>

\* Before GET has returned.
NoResponse == [status |-> 0]

\* Before formatDate has returned.
NotFormatted == [pending |-> TRUE]

\* One call of containsJavaScript on the content.
Classify ==
    /\ verdict = Pending
    /\ verdict' = <<containsJavaScript(content)>>
    /\ UNCHANGED <<content, routeVars, dateVars, cardVars, reportVars, middlewareVars, typeVars, homeVars, imageVars>>

\* The request to the route: the parser settles, the response is built.
GET ==
    /\ response = NoResponse
    /\ response' = GETResponse(feed)
    /\ UNCHANGED <<classifierVars, feed, dateVars, cardVars, reportVars, middlewareVars, typeVars, homeVars, imageVars>>

\* One rendering of a story card: formatDate on the story's timestamp.
FormatDate ==
    /\ formatted = NotFormatted
    /\ formatted' = formatDate(timestamp, clock)
    /\ diffs' = anniversaryDiffs(timestamp, clock)
    /\ UNCHANGED <<classifierVars, routeVars, timestamp, clock, timeZoneOffset, cardVars, reportVars, middlewareVars, typeVars, homeVars, imageVars>>

\* onClick of the title button: setIsExpanded(!isExpanded), and the card
\* renders again.
Click ==
    /\ story # Null
    /\ viewMode = "list"
    /\ activations < MaxActivations
    /\ isExpanded' = ~isExpanded
    /\ activations' = activations + 1
    /\ rendered' = Render(story, viewMode, isExpanded', clock)
    /\ UNCHANGED <<classifierVars, routeVars, dateVars, story, viewMode, reportVars, middlewareVars, typeVars, homeVars, imageVars>>

\* onKeyDown of the title button: Enter and Space toggle, other keys do
\* nothing.
KeyDown(key) ==
    /\ story # Null
    /\ viewMode = "list"
    /\ activations < MaxActivations
    /\ isExpanded' = IF key \in ToggleKeys THEN ~isExpanded ELSE isExpanded
    /\ activations' = IF key \in {"Enter", " "} THEN activations + 1 ELSE activations
    /\ rendered' = Render(story, viewMode, isExpanded', clock)
    /\ UNCHANGED <<classifierVars, routeVars, dateVars, story, viewMode, reportVars, middlewareVars, typeVars, homeVars, imageVars>>

\* The page switches between the grid and the list: the card keeps its
\* state and renders again.
SetViewMode ==
    /\ story # Null
    /\ viewMode' = IF viewMode = "grid" THEN "list" ELSE "grid"
    /\ rendered' = Render(story, viewMode', isExpanded, clock)
    /\ UNCHANGED <<classifierVars, routeVars, dateVars, story, isExpanded, activations, reportVars, middlewareVars, typeVars, homeVars, imageVars>>

\* The report endpoint: the body settles, the response is built.
POST ==
    /\ postResponse = NoResponse
    /\ postResponse' = POSTResult(requestJson).response
    /\ console' = console \o POSTResult(requestJson).console
    /\ UNCHANGED <<classifierVars, routeVars, dateVars, cardVars, requestJson, middlewareVars, typeVars, homeVars, imageVars>>

\* Before the middleware has returned.
NoHeaders == [pending |-> TRUE]

\* One request through the middleware.
Middleware ==
    /\ middlewareHeaders = NoHeaders
    /\ middlewareHeaders' = middleware(processEnv)
    /\ UNCHANGED <<classifierVars, routeVars, dateVars, cardVars, reportVars, processEnv, typeVars, homeVars, imageVars>>

\* Before the factories and the converters have been called.
NotConverted == [pending |-> TRUE]

\* The factories and the converters, each called on the candidate.
Convert ==
    /\ converted = NotConverted
    /\ converted' = [createStoryLink |-> createStoryLink(candidate.link),
                     toStoryLink |-> toStoryLink(candidate.link),
                     createDateString |-> createDateString(candidate.date),
                     toDateString |-> toDateString(candidate.date)]
    /\ UNCHANGED <<classifierVars, routeVars, dateVars, cardVars, reportVars, middlewareVars, candidate, homeVars, imageVars>>

\* Before a fetch has settled.
NoOutcome == [pending |-> TRUE]

\* useEffect(() => { fetchStories() }, []): once, after Home has mounted.
MountEffect ==
    /\ home # Null
    /\ started = 0
    /\ home' = fetchStoriesStart(home)
    /\ started' = started + 1
    /\ inFlight' = inFlight + 1
    /\ UNCHANGED <<classifierVars, routeVars, dateVars, cardVars, reportVars, middlewareVars, typeVars, localStorage, completed, lastOutcome, toggled, imageVars>>

\* A click on 'Refresh Stories', when the main view shows it enabled.
ClickRefresh ==
    /\ home # Null
    /\ HomeView(home) = "main"
    /\ ~RefreshDisabled(home)
    /\ started < MaxFetches
    /\ home' = handleRefresh(home)
    /\ started' = started + 1
    /\ inFlight' = inFlight + 1
    /\ UNCHANGED <<classifierVars, routeVars, dateVars, cardVars, reportVars, middlewareVars, typeVars, localStorage, completed, lastOutcome, toggled, imageVars>>

\* A click on 'Try Again', when the error view shows it.
ClickTryAgain ==
    /\ home # Null
    /\ HomeView(home) = "error"
    /\ started < MaxFetches
    /\ home' = handleRefresh(home)
    /\ started' = started + 1
    /\ inFlight' = inFlight + 1
    /\ UNCHANGED <<classifierVars, routeVars, dateVars, cardVars, reportVars, middlewareVars, typeVars, localStorage, completed, lastOutcome, toggled, imageVars>>

\* A fetch settles, and fetchStories runs to its end.
FetchSettles(outcome) ==
    /\ home # Null
    /\ inFlight > 0
    /\ home' = fetchStoriesSettled(home, outcome)
    /\ inFlight' = inFlight - 1
    /\ completed' = completed + 1
    /\ lastOutcome' = outcome
    /\ UNCHANGED <<classifierVars, routeVars, dateVars, cardVars, reportVars, middlewareVars, typeVars, localStorage, started, toggled, imageVars>>

\* A click on the view toggle button, which the main view shows.
ToggleView ==
    /\ home # Null
    /\ HomeView(home) = "main"
    /\ home' = [home EXCEPT !.viewMode = newMode(home)]
    /\ localStorage' = newMode(home)
    /\ toggled' = TRUE
    /\ UNCHANGED <<classifierVars, routeVars, dateVars, cardVars, reportVars, middlewareVars, typeVars, started, inFlight, completed, lastOutcome, imageVars>>

\* The page is loaded again: Home mounts anew, and what the fetches of the
\* page before settle with reaches nobody.
Reload ==
    /\ home # Null
    /\ completed > 0
    /\ home' = initialHome(localStorage)
    /\ started' = 0
    /\ inFlight' = 0
    /\ completed' = 0
    /\ lastOutcome' = NoOutcome
    /\ UNCHANGED <<classifierVars, routeVars, dateVars, cardVars, reportVars, middlewareVars, typeVars, localStorage, toggled, imageVars>>

\* optimizeImagesInHTML has not returned.
NotOptimized == [pending |-> TRUE]

\* optimizeImagesInHTML(markup).
OptimizeImages ==
    /\ optimized = NotOptimized
    /\ markup \in HtmlInputs
    /\ optimized' = optimizeImagesInHTML(markup)
    /\ UNCHANGED <<classifierVars, routeVars, dateVars, cardVars, reportVars, middlewareVars, typeVars, homeVars, markup>>

\* stories.map((story) => <StoryCard story={story} viewMode={viewMode} />)
\* for story i of the response of GET: the card mounts, collapsed.
ShowStory(i, mode) ==
    /\ response # NoResponse
    /\ response.status = 200
    /\ story = Null
    /\ i \in 1..Len(response.body.items)
    /\ story' = response.body.items[i]
    /\ viewMode' = mode
    /\ isExpanded' = FALSE
    /\ activations' = 0
    /\ rendered' = Render(story', mode, FALSE, clock)
    /\ UNCHANGED <<classifierVars, routeVars, dateVars, reportVars, middlewareVars, typeVars, homeVars, imageVars>>

\* The components a specification leaves alone.
ClassifierIdle == content = EmptyString /\ verdict = Pending

RouteIdle == feed = [resolved |-> FALSE] /\ response = NoResponse

DateIdle ==
    /\ timestamp = EmptyString
    /\ clock = 0
    /\ timeZoneOffset = 0
    /\ formatted = NotFormatted
    /\ diffs = NotComputed

\* No card is mounted.
CardIdle ==
    /\ story = Null
    /\ viewMode = "grid"
    /\ isExpanded = FALSE
    /\ activations = 0
    /\ rendered = Null

\* No report has been posted.
ReportIdle ==
    /\ requestJson = Throws("SyntaxError")
    /\ postResponse = NoResponse
    /\ console = <<>>

\* No request has gone through the middleware.
MiddlewareIdle == processEnv = <<>> /\ middlewareHeaders = NoHeaders

\* No factory and no converter has been called.
TypesIdle ==
    /\ candidate = [link |-> EmptyString, date |-> EmptyString]
    /\ converted = NotConverted

\* No page is loaded.
HomeIdle ==
    /\ home = Null
    /\ localStorage = NullString
    /\ started = 0
    /\ inFlight = 0
    /\ completed = 0
    /\ lastOutcome = NoOutcome
    /\ toggled = FALSE

\* optimizeImagesInHTML is not called.
ImagesIdle == markup = EmptyString /\ optimized = NotOptimized

InitClassify ==
    /\ content \in ContentInputs \cup {EmptyString, Undefined}
    /\ verdict = Pending
    /\ RouteIdle
    /\ DateIdle
    /\ CardIdle
    /\ ReportIdle
    /\ MiddlewareIdle
    /\ TypesIdle
    /\ HomeIdle
    /\ ImagesIdle

NextClassify == Classify

SpecClassify == InitClassify /\ [][NextClassify]_vars

InitGET ==
    /\ ClassifierIdle
    /\ feed \in ParseURLOutcomes
    /\ response = NoResponse
    /\ DateIdle
    /\ CardIdle
    /\ ReportIdle
    /\ MiddlewareIdle
    /\ TypesIdle
    /\ HomeIdle
    /\ ImagesIdle

NextGET == GET

SpecGET == InitGET /\ [][NextGET]_vars

InitFormat ==
    /\ ClassifierIdle
    /\ RouteIdle
    /\ timestamp \in StoryTimestamps \cup OtherTimestamps
    /\ clock \in ClockReadingsFor(timestamp)
    /\ timeZoneOffset \in TimeZoneOffsets
    /\ formatted = NotFormatted
    /\ diffs = NotComputed
    /\ CardIdle
    /\ ReportIdle
    /\ MiddlewareIdle
    /\ TypesIdle
    /\ HomeIdle
    /\ ImagesIdle

NextFormat == FormatDate

SpecFormat == InitFormat /\ [][NextFormat]_vars

\* The card is mounted collapsed (useState(false)) and rendered.
InitStoryCard ==
    /\ ClassifierIdle
    /\ RouteIdle
    /\ timestamp = EmptyString
    /\ clock = CardClock
    /\ timeZoneOffset = 0
    /\ formatted = NotFormatted
    /\ diffs = NotComputed
    /\ story \in CardStories
    /\ viewMode \in {"grid", "list"}
    /\ isExpanded = FALSE
    /\ activations = 0
    /\ rendered = Render(story, viewMode, isExpanded, clock)
    /\ ReportIdle
    /\ MiddlewareIdle
    /\ TypesIdle
    /\ HomeIdle
    /\ ImagesIdle

NextStoryCard ==
    \/ Click
    \/ \E key \in Keys : KeyDown(key)
    \/ SetViewMode

SpecStoryCard == InitStoryCard /\ [][NextStoryCard]_vars

InitPOST ==
    /\ ClassifierIdle
    /\ RouteIdle
    /\ DateIdle
    /\ CardIdle
    /\ requestJson \in RequestBodies
    /\ postResponse = NoResponse
    /\ console = <<>>
    /\ MiddlewareIdle
    /\ TypesIdle
    /\ HomeIdle
    /\ ImagesIdle

NextPOST == POST

SpecPOST == InitPOST /\ [][NextPOST]_vars

InitMiddleware ==
    /\ ClassifierIdle
    /\ RouteIdle
    /\ DateIdle
    /\ CardIdle
    /\ ReportIdle
    /\ processEnv \in ProcessEnvs
    /\ middlewareHeaders = NoHeaders
    /\ TypesIdle
    /\ HomeIdle
    /\ ImagesIdle

NextMiddleware == Middleware

SpecMiddleware == InitMiddleware /\ [][NextMiddleware]_vars

InitTypes ==
    /\ ClassifierIdle
    /\ RouteIdle
    /\ DateIdle
    /\ CardIdle
    /\ ReportIdle
    /\ MiddlewareIdle
    /\ candidate \in Candidates
    /\ converted = NotConverted
    /\ HomeIdle
    /\ ImagesIdle

NextTypes == Convert

SpecTypes == InitTypes /\ [][NextTypes]_vars

\* The page is loaded in a browser and Home has mounted.
InitHome ==
    /\ ClassifierIdle
    /\ RouteIdle
    /\ DateIdle
    /\ CardIdle
    /\ ReportIdle
    /\ MiddlewareIdle
    /\ TypesIdle
    /\ localStorage \in SavedViewModes
    /\ home = initialHome(localStorage)
    /\ started = 0
    /\ inFlight = 0
    /\ completed = 0
    /\ lastOutcome = NoOutcome
    /\ toggled = FALSE
    /\ ImagesIdle

NextHome ==
    \/ MountEffect
    \/ ClickRefresh
    \/ ClickTryAgain
    \/ \E outcome \in FetchOutcomes : FetchSettles(outcome)
    \/ ToggleView
    \/ Reload

SpecHome == InitHome /\ [][NextHome]_vars

\* optimizeImagesInHTML is about to be called with some html.
InitImages ==
    /\ ClassifierIdle
    /\ RouteIdle
    /\ DateIdle
    /\ CardIdle
    /\ ReportIdle
    /\ MiddlewareIdle
    /\ TypesIdle
    /\ HomeIdle
    /\ markup \in HtmlInputs
    /\ optimized = NotOptimized

NextImages == OptimizeImages

SpecImages == InitImages /\ [][NextImages]_vars

\* GET is requested, and the page shows a story of its response.
InitPage ==
    /\ ClassifierIdle
    /\ feed \in PageOutcomes
    /\ response = NoResponse
    /\ DateIdle
    /\ CardIdle
    /\ ReportIdle
    /\ MiddlewareIdle
    /\ TypesIdle
    /\ HomeIdle
    /\ ImagesIdle

NextPage ==
    \/ GET
    \/ \E i \in 1..MaxStories, mode \in {"grid", "list"} : ShowStory(i, mode)
    \/ Click

SpecPage == InitPage /\ [][NextPage]_vars

(***************************************************************************)
(* Properties of GET                                                       *)
(***************************************************************************)
\* GET has answered.
Fetched == response # NoResponse

\* GET has answered a feed the parser resolved with.
Resolved == Fetched /\ feed.resolved

\* The effective content of an item: its content if non-empty, else its
\* contentSnippet if non-empty, else the empty string.
EffectiveContent(item) ==
    IF ~Falsy(Prop(item, "content")) THEN Prop(item, "content")
    ELSE IF ~Falsy(Prop(item, "contentSnippet")) THEN Prop(item, "contentSnippet")
    ELSE EmptyString

\* The effective contents of the items of the model that the classifier
\* rejects.
RejectedContents ==
    {text \in {EffectiveContent(item) : item \in FeedItems} : containsJavaScript(text)}

\* The classifier rejects the item.
Rejected(item) == EffectiveContent(item) \in RejectedContents

\* The link of the item is a non-empty parseable URL and its pubDate a
\* non-empty parseable date.
ValidFields(item) ==
    /\ ~Falsy(Prop(item, "link")) /\ URLParses(Prop(item, "link"))
    /\ ~Falsy(Prop(item, "pubDate")) /\ DateParses(Prop(item, "pubDate"))

\* The output item carries the link, pubDate, content and contentSnippet of
\* the input item.
Carries(out, in) ==
    \A k \in {"link", "pubDate", "content", "contentSnippet"} :
        Prop(out, k) = Prop(in, k)

\* out is made of items of in, each used once, in their order in in.
IsSubsequence(out, in) ==
    \E f \in [1..Len(out) -> 1..Len(in)] :
        /\ \A i, j \in 1..Len(out) : i < j => f[i] < f[j]
        /\ \A i \in 1..Len(out) : Carries(out[i], in[f[i]])

\* C1: no item of a success response has an effective content that
\* containsJavaScript flags.
C1_NoRejectedItemInOutput ==
    Resolved =>
        \A i \in 1..Len(response.body.items) : ~Rejected(response.body.items[i])

\* A feed with a rejected item, one of them rejected for its summary alone,
\* and a kept item whose unused summary would be flagged.
C1_Witness ==
    /\ Resolved
    /\ \E i \in 1..Len(feed.feed.items) :
          /\ Rejected(feed.feed.items[i])
          /\ Falsy(Prop(feed.feed.items[i], "content"))
    /\ \E j \in 1..Len(response.body.items) :
          containsJavaScript(Prop(response.body.items[j], "contentSnippet"))

\* C2: the items of the response are a subsequence of the parser's items,
\* each carrying the link, pubDate, content and contentSnippet it came with.
C2_OutputIsSubsequence ==
    Resolved => IsSubsequence(response.body.items, feed.feed.items)

\* The feed [ok, script, ok2] answered with exactly [ok, ok2].
C2_Witness ==
    /\ Resolved
    /\ Len(feed.feed.items) = 3
    /\ ~Rejected(feed.feed.items[1])
    /\ Rejected(feed.feed.items[2])
    /\ ~Rejected(feed.feed.items[3])
    /\ feed.feed.items[1] # feed.feed.items[3]
    /\ Len(response.body.items) = 2
    /\ Carries(response.body.items[1], feed.feed.items[1])
    /\ Carries(response.body.items[2], feed.feed.items[3])

C4_KeptIffSafe ==
    Resolved =>
        /\ Len(response.body.items)
              = Cardinality({i \in 1..Len(feed.feed.items) : ~Rejected(feed.feed.items[i])})
        /\ \A i \in 1..Len(feed.feed.items) :
              ~Rejected(feed.feed.items[i])
                 => \E k \in 1..Len(response.body.items) :
                       \A p \in {"title", "link", "pubDate"} :
                          Prop(response.body.items[k], p)
                             = Or(Prop(feed.feed.items[i], p), EmptyString)

\* The item is SAFE and its link and pubDate are valid.
Acceptable(item) == ~Rejected(item) /\ ValidFields(item)

\* C4, amended: an item is kept if and only if its content is SAFE and its
\* link and pubDate are valid; a kept item without a title has the empty
\* string as its title, and its link and pubDate are those of the feed.
C4_KeptIffSafeAndValid ==
    Resolved =>
        LET kept == SelectSeq(feed.feed.items, Acceptable)
        IN  /\ Len(response.body.items) = Len(kept)
            /\ \A k \in 1..Len(kept) :
                  /\ Prop(response.body.items[k], "title")
                        = Or(Prop(kept[k], "title"), EmptyString)
                  /\ Prop(response.body.items[k], "link") = Prop(kept[k], "link")
                  /\ Prop(response.body.items[k], "pubDate") = Prop(kept[k], "pubDate")

\* An item without a title is in the response with the empty title, and a
\* safe item without a link is not.
C4_Witness ==
    /\ Resolved
    /\ \E i \in 1..Len(feed.feed.items) :
          /\ "title" \notin DOMAIN feed.feed.items[i]
          /\ Acceptable(feed.feed.items[i])
    /\ \E i \in 1..Len(feed.feed.items) :
          /\ "link" \notin DOMAIN feed.feed.items[i]
          /\ Prop(feed.feed.items[i], "pubDate") = EmptyString
          /\ ~Rejected(feed.feed.items[i])
    /\ Len(response.body.items) = 1
    /\ response.body.items[1].title = EmptyString

\* C5: an item whose link or pubDate is empty or does not parse is not in
\* the response, which is still 200 with success = true, and the response
\* holds what it would hold had the feed come without those items.
C5_InvalidItemsFilteredOut ==
    Resolved =>
        /\ response.status = 200
        /\ response.body.success = TRUE
        /\ \A k \in 1..Len(response.body.items) : ValidFields(response.body.items[k])
        /\ response.body.items
              = toJSON(items(SelectSeq(feed.feed.items, ValidFields)))

\* A feed of safe items: one without a parseable link, one without a
\* parseable date and one that is kept.
C5_Witness ==
    /\ Resolved
    /\ \A i \in 1..Len(feed.feed.items) : ~Rejected(feed.feed.items[i])
    /\ \E i \in 1..Len(feed.feed.items) :
          /\ ~Falsy(Prop(feed.feed.items[i], "link"))
          /\ ~URLParses(Prop(feed.feed.items[i], "link"))
    /\ \E i \in 1..Len(feed.feed.items) :
          /\ ~Falsy(Prop(feed.feed.items[i], "pubDate"))
          /\ ~DateParses(Prop(feed.feed.items[i], "pubDate"))
    /\ Len(response.body.items) = 1
    /\ response.status = 200

\* C6: when parser.parseURL rejects, the answer is 500 with success = false,
\* a SERVER_ERROR of status code 500 with the fixed message, and no items.
C6_ProviderFailureIsAtomic ==
    (Fetched /\ ~feed.resolved) =>
        /\ response.status = 500
        /\ response.body.success = FALSE
        /\ response.body.error.type = "SERVER_ERROR"
        /\ response.body.error.statusCode = 500
        /\ response.body.error.message = "Failed to fetch RSS feed"
        /\ "items" \notin DOMAIN response.body

\* The parser has rejected and GET has answered.
C6_Witness ==
    /\ Fetched
    /\ ~feed.resolved
    /\ response # NoResponse
    /\ "error" \in DOMAIN response.body

\* C7: the items of a response, handed in again as the raw items, come out
\* as the same sequence.
C7_AssembleIsIdempotent ==
    Resolved => toJSON(items(response.body.items)) = response.body.items

\* A response of several items, one of them without rich content, from a
\* feed that lost an item.
C7_Witness ==
    /\ Resolved
    /\ Len(response.body.items) >= 2
    /\ Len(response.body.items) < Len(feed.feed.items)
    /\ \E k \in 1..Len(response.body.items) :
          "content" \notin DOMAIN response.body.items[k]
    /\ \E k \in 1..Len(response.body.items) :
          /\ "content" \in DOMAIN response.body.items[k]
          /\ "contentSnippet" \in DOMAIN response.body.items[k]

(***************************************************************************)
(* Properties of containsJavaScript                                        *)
(***************************************************************************)
\* containsJavaScript has returned.
Classified == verdict # Pending

\* The two cases of each letter.
LetterPairs == {{LowerLetters[n], UpperLetters[n]} : n \in 1..Len(LowerLetters)}

\* a and b are the same character, or the same letter in different cases.
SameLetter(a, b) == a = b \/ {a, b} \in LetterPairs

\* word occurs in s at position i, in any letter case.
OccursAt(s, i, word) ==
    /\ i >= 1
    /\ i + Len(word) - 1 <= Len(s)
    /\ \A k \in 1..Len(word) : SameLetter(s[i + k - 1], word[k])

\* No letter, digit or underscore comes right before position i of s.
NotInsideWord(s, i) ==
    i = 1 \/ s[i - 1] \notin (LowerSet \cup UpperSet \cup Digits \cup {"_"})

\* After position j of s come zero or more white-space characters, then c.
FollowedBy(s, j, c) ==
    \E k \in (j + 1)..Len(s) :
        /\ s[k] = c
        /\ \A m \in (j + 1)..(k - 1) : s[m] \in WhiteSpace

\* s contains <script, in any letter case, followed at once by a
\* white-space character or by >.
HasScriptTagOpening(s) ==
    \E i \in 1..Len(s) :
        /\ OccursAt(s, i, <<"<", "s", "c", "r", "i", "p", "t">>)
        /\ i + 7 <= Len(s)
        /\ s[i + 7] \in WhiteSpace \cup {">"}

\* s contains javascript: in any letter case.
HasJavascriptScheme(s) == \E i \in 1..Len(s) : OccursAt(s, i, <<"j", "a", "v", "a", "s", "c", "r", "i", "p", "t", ":">>)

\* s contains one of the enumerated handler names at a word boundary, in
\* any letter case, followed by optional white space and =.
HasHandlerAssignment(s) ==
    \E i \in 1..Len(s) :
        /\ NotInsideWord(s, i)
        /\ \E name \in HandlerNames :
              /\ OccursAt(s, i, name)
              /\ FollowedBy(s, i + Len(name) - 1, "=")

\* C8: a content that contains <script, in any letter case, followed at
\* once by white space or >, is REJECTED.
C8_ScriptTagRejected ==
    (Classified /\ HasScriptTagOpening(content)) => verdict = <<TRUE>>

\* A tag in upper or mixed case followed by white space, in a content no
\* other rule matches, has been rejected.
C8_Witness ==
    /\ verdict = <<TRUE>>
    /\ \E i \in 1..Len(content) :
          /\ OccursAt(content, i, <<"<", "s", "c", "r", "i", "p", "t">>)
          /\ content[i + 1] = "S"
          /\ i + 7 <= Len(content)
          /\ content[i + 7] \in WhiteSpace
    /\ ~JavascriptProtocolRule(content)
    /\ ~EventHandlerRule(content)
    /\ ~EvalRule(content)

\* C9: a content that contains javascript: anywhere, in any letter case, is
\* REJECTED.
C9_JavascriptSchemeRejected ==
    (Classified /\ HasJavascriptScheme(content)) => verdict = <<TRUE>>

\* The scheme in mixed case, right after word characters, in a content no
\* other rule matches, has been rejected.
C9_Witness ==
    /\ verdict = <<TRUE>>
    /\ \E i \in 2..Len(content) :
          /\ OccursAt(content, i, <<"j", "a", "v", "a", "s", "c", "r", "i", "p", "t", ":">>)
          /\ content[i] = "J"
          /\ content[i + 1] = "a"
          /\ content[i - 1] \in WordChars
    /\ ~ScriptTagRule(content)
    /\ ~EventHandlerRule(content)
    /\ ~EvalRule(content)

\* C10: a content in which one of the 32 enumerated handler names occurs at
\* a word boundary, in any letter case, followed by zero or more white-space
\* characters and then =, is REJECTED.
C10_HandlerAssignmentRejected ==
    (Classified /\ HasHandlerAssignment(content)) => verdict = <<TRUE>>

\* There are 32 names; the last of them, in upper case with white space
\* before the =, in a content no other rule matches, has been rejected.
C10_Witness ==
    /\ Cardinality(HandlerNames) = 32
    /\ verdict = <<TRUE>>
    /\ \E i \in 1..Len(content) :
          /\ NotInsideWord(content, i)
          /\ i + 8 <= Len(content)
          /\ SubSeq(content, i, i + 7) = <<"O", "N", "U", "N", "L", "O", "A", "D">>
          /\ content[i + 8] \in WhiteSpace
          /\ FollowedBy(content, i + 7, "=")
    /\ ~ScriptTagRule(content)
    /\ ~JavascriptProtocolRule(content)
    /\ ~EvalRule(content)

\* s contains eval, setTimeout or setInterval at a word boundary, in any
\* letter case, followed by optional white space and (.
HasCallInvocation(s) ==
    \E i \in 1..Len(s) :
        /\ NotInsideWord(s, i)
        /\ \E name \in {<<"e", "v", "a", "l">>, <<"s", "e", "t", "T", "i", "m", "e", "o", "u", "t">>, <<"s", "e", "t", "I", "n", "t", "e", "r", "v", "a", "l">>} :
              /\ OccursAt(s, i, name)
              /\ FollowedBy(s, i + Len(name) - 1, "(")

\* s contains an enumerated handler name right after a letter, digit or
\* underscore, followed by optional white space and =.
HasHandlerAssignmentInsideWord(s) ==
    \E i \in 2..Len(s) :
        /\ ~NotInsideWord(s, i)
        /\ \E name \in HandlerNames :
              /\ OccursAt(s, i, name)
              /\ FollowedBy(s, i + Len(name) - 1, "=")

\* C11: a content in which a handler name followed by = occurs only right
\* after a letter, digit or underscore, and which matches no other rule, is
\* classified SAFE.
C11_HandlerInsideWordIsSafe ==
    (/\ Classified
     /\ HasHandlerAssignmentInsideWord(content)
     /\ ~HasHandlerAssignment(content)
     /\ ~HasScriptTagOpening(content)
     /\ ~HasJavascriptScheme(content)
     /\ ~HasCallInvocation(content))
        => verdict = <<FALSE>>

\* buttonclick= has been classified SAFE.
C11_Witness ==
    /\ content = <<"b", "u", "t", "t", "o", "n", "c", "l", "i", "c", "k", "=">>
    /\ verdict = <<FALSE>>

\* C12: a content in which eval, setTimeout or setInterval occurs at a word
\* boundary, in any letter case, followed by zero or more white-space
\* characters and then (, is REJECTED.
C12_CallInvocationRejected ==
    (Classified /\ HasCallInvocation(content)) => verdict = <<TRUE>>

\* setInterval in upper case with white space before the (, in a content
\* no other rule matches, has been rejected.
C12_Witness ==
    /\ verdict = <<TRUE>>
    /\ \E i \in 1..Len(content) :
          /\ NotInsideWord(content, i)
          /\ i + 11 <= Len(content)
          /\ SubSeq(content, i, i + 10) = <<"S", "E", "T", "I", "N", "T", "E", "R", "V", "A", "L">>
          /\ content[i + 11] \in WhiteSpace
          /\ FollowedBy(content, i + 10, "(")
    /\ ~ScriptTagRule(content)
    /\ ~JavascriptProtocolRule(content)
    /\ ~EventHandlerRule(content)

\* C13: the classifier always returns a verdict: SAFE for the empty string
\* and for absent content, and for any other content SAFE exactly when none
\* of the four rules matches.
C13_ClassifierIsTotal ==
    Classified =>
        /\ verdict \in {<<TRUE>>, <<FALSE>>}
        /\ Falsy(content) => verdict = <<FALSE>>
        /\ ~Falsy(content) =>
              (verdict = <<FALSE>>
                  <=> ~(\/ HasScriptTagOpening(content)
                        \/ HasJavascriptScheme(content)
                        \/ HasHandlerAssignment(content)
                        \/ HasCallInvocation(content)))

\* Absent content has been classified SAFE.
C13_Witness ==
    /\ content = Undefined
    /\ verdict = <<FALSE>>

(***************************************************************************)
(* Properties of formatDate                                                *)
(***************************************************************************)
\* formatDate has returned.
Formatted == formatted # NotFormatted

\* The timestamp is a text that parses to no instant.
Unparseable == timestamp # Undefined /\ ~DateParses(timestamp)

\* C14: formatDate never throws, and for a timestamp that parses to no valid
\* calendar instant it returns the original text, unchanged, as both the
\* relative time and the absolute time.
C14_UnparseableTimestampReturned ==
    Formatted /\ Unparseable =>
        formatted = [relativeTime |-> timestamp, absoluteTime |-> timestamp]

\* The timestamp parses to an instant.
Parseable == timestamp # Undefined /\ DateParses(timestamp)

\* The instant the timestamp parses to.
Parsed == DateParse(timestamp)

\* C15: for a timestamp that parses to an instant strictly later than now,
\* formatDate returns exactly 'in the future' as the relative time, with the
\* long-form calendar rendering of the parsed instant as the absolute time,
\* so no elapsed-bucket label is produced for it; and no label produced for
\* any input contains a negative count.
C15_FutureIsNamedNeverCounted ==
    Formatted =>
        /\ Parseable /\ Parsed > clock =>
                formatted = [relativeTime |-> <<"i", "n", " ", "t", "h", "e", " ", "f", "u", "t", "u", "r", "e">>,
                             absoluteTime |-> toLocaleDateString(Parsed)]
        /\ \A i \in 1..Len(formatted.relativeTime) : formatted.relativeTime[i] # "-"

\* The story of the component's tests, rendered a second before it is
\* published, in UTC.
C15_Witness ==
    /\ Formatted
    /\ timestamp = GoodDate
    /\ timeZoneOffset = 0
    /\ clock = Parsed - 1
    /\ formatted = [relativeTime |-> <<"i", "n", " ", "t", "h", "e", " ", "f", "u", "t", "u", "r", "e">>,
                    absoluteTime |-> <<"J", "a", "n", "u", "a", "r", "y", " ", "1", "5", ",", " ", "2", "0", "2", "4", " ", "a", "t", " ", "1", "0", ":", "3", "0", " ", "A", "M">>]

\* The whole seconds from the parsed instant to now.
ElapsedSeconds == clock - Parsed

\* "1 minute ago", "3 minutes ago": a count, its unit in the singular for a
\* count of one only, and "ago".
CountLabel(count, unit) ==
    DecimalDigits(count) \o <<" ">> \o unit \o (IF count = 1 THEN <<>> ELSE <<"s">>) \o <<" ", "a", "g", "o">>

\* The label of the ladder: the first bound that holds, top-down, each
\* count the integer quotient of the one before it by 60, 60, 24 and 7.
LadderLabel ==
    LET seconds == ElapsedSeconds
        minutes == seconds \div 60
        hours   == minutes \div 60
        days    == hours \div 24
        weeks   == days \div 7
    IN  CASE seconds < 60 -> <<"J", "u", "s", "t", " ", "n", "o", "w">>
          [] seconds >= 60 /\ minutes < 60 -> CountLabel(minutes, <<"m", "i", "n", "u", "t", "e">>)
          [] minutes >= 60 /\ hours < 24 -> CountLabel(hours, <<"h", "o", "u", "r">>)
          [] hours >= 24 /\ days < 7 -> CountLabel(days, <<"d", "a", "y">>)
          [] days >= 7 /\ weeks < 4 -> CountLabel(weeks, <<"w", "e", "e", "k">>)
          [] weeks >= 4 /\ diffs.months < 12 -> CountLabel(diffs.months, <<"m", "o", "n", "t", "h">>)
          [] weeks >= 4 /\ diffs.months >= 12 -> CountLabel(diffs.years, <<"y", "e", "a", "r">>)

\* C16: for a parsed timestamp not later than now, formatDate selects exactly
\* one label by the first satisfied bound, top-down, with strict '<': elapsed
\* whole seconds < 60 gives 'Just now', else whole minutes < 60 the minutes
\* label, else whole hours < 24 the hours label, else whole days < 7 the days
\* label, else whole weeks < 4 the weeks label, else months < 12 the months
\* label, otherwise the years label; each count is the integer quotient
\* along the ladder 60, 60, 24, 7, so 45 seconds gives 'Just now' and exactly
\* 60 seconds gives '1 minute ago'.
C16_LadderSelectsFirstBound ==
    Formatted /\ Parseable /\ Parsed <= clock =>
        /\ formatted.relativeTime = LadderLabel
        /\ ElapsedSeconds = 45 => formatted.relativeTime = <<"J", "u", "s", "t", " ", "n", "o", "w">>
        /\ ElapsedSeconds = 60 => formatted.relativeTime = <<"1", " ", "m", "i", "n", "u", "t", "e", " ", "a", "g", "o">>

\* A story rendered exactly 60 seconds after it is published.
C16_Witness ==
    /\ Formatted
    /\ Parseable
    /\ ElapsedSeconds = 60
    /\ formatted.relativeTime = <<"1", " ", "m", "i", "n", "u", "t", "e", " ", "a", "g", "o">>

(***************************************************************************)
(* Properties of calculateAnniversaryBasedDiff                             *)
(***************************************************************************)
\* A day of the calendar is <<year, month, day>>, with 1 for January.
\* The civil calendar, from the rule for leap years.
IsLeap(y) == (y % 4 = 0 /\ y % 100 # 0) \/ y % 400 = 0

LastDayOf(y, m) ==
    IF m = 2 THEN (IF IsLeap(y) THEN 29 ELSE 28)
    ELSE IF m \in {4, 6, 9, 11} THEN 30 ELSE 31

\* Day a is before day b.
DayBefore(a, b) ==
    \/ a[1] < b[1]
    \/ a[1] = b[1] /\ a[2] < b[2]
    \/ a[1] = b[1] /\ a[2] = b[2] /\ a[3] < b[3]

\* The local day of an instant.
LocalDate(t) == <<getFullYear(t), getMonth(t) + 1, getDate(t)>>

\* Day d of month m of year y, where a day past the end of the month rolls
\* over into the following month.
RolledOver(y, m, d) ==
    IF d <= LastDayOf(y, m) THEN <<y, m, d>>
    ELSE IF m = 12 THEN <<y + 1, 1, d - LastDayOf(y, m)>>
    ELSE <<y, m + 1, d - LastDayOf(y, m)>>

\* Day d of month m of year y, clamped to the last day of the month.
Clamped(y, m, d) == <<y, m, IF d <= LastDayOf(y, m) THEN d ELSE LastDayOf(y, m)>>

NowDay == LocalDate(clock)

ParsedDay == LocalDate(Parsed)

\* The month anniversary: now's year and month with parsed's day.
MonthAnniversary == RolledOver(NowDay[1], NowDay[2], ParsedDay[3])

\* The year anniversary: now's year with parsed's month and day.
YearAnniversary == Clamped(NowDay[1], ParsedDay[2], ParsedDay[3])

AtLeastZero(n) == IF n < 0 THEN 0 ELSE n

\* The counts were computed for a timestamp that parses.
Counted == Formatted /\ Parseable /\ diffs.computed

\* C17: the elapsed month count equals max(0, naive - d), where naive =
\* (now.year - parsed.year) * 12 + (now.month - parsed.month) and d = 1
\* exactly when now truncated to midnight is before the anniversary built
\* from now's year and month with parsed's day of the month, a day the month
\* does not have rolling over into the following month; so 2023-01-31
\* observed on 2023-02-28 gives 0 months, the anniversary being March 3.
C17_MonthCountRollsOver ==
    Counted =>
        LET naive == (NowDay[1] - ParsedDay[1]) * 12 + (NowDay[2] - ParsedDay[2])
            d == IF DayBefore(NowDay, MonthAnniversary) THEN 1 ELSE 0
        IN  diffs.months = AtLeastZero(naive - d)

\* 2023-01-31 observed on 2023-02-28.
C17_Witness ==
    /\ Counted
    /\ timestamp = OtherDate
    /\ ParsedDay = <<2023, 1, 31>>
    /\ NowDay = <<2023, 2, 28>>
    /\ MonthAnniversary = <<2023, 3, 3>>
    /\ diffs.months = 0

\* C18: the elapsed year count equals max(0, (now.year - parsed.year) - d),
\* where d = 1 exactly when now truncated to midnight is before the
\* anniversary in now's year at parsed's month and parsed's day clamped to
\* the last valid day of that month; a Feb 29 timestamp has its anniversary
\* on Feb 28 in a non-leap year rather than rolling into March.
C18_YearCountClamps ==
    Counted =>
        LET d == IF DayBefore(NowDay, YearAnniversary) THEN 1 ELSE 0
        IN  diffs.years = AtLeastZero((NowDay[1] - ParsedDay[1]) - d)

\* A Feb 29 story observed on Feb 28 of the next year: one year.
C18_Witness ==
    /\ Counted
    /\ ParsedDay = <<2024, 2, 29>>
    /\ NowDay = <<2025, 2, 28>>
    /\ YearAnniversary = <<2025, 2, 28>>
    /\ diffs.years = 1

(***************************************************************************)
(***************************************************************************)
(* Properties of the months and the years label                            *)
(***************************************************************************)
\* The elapsed whole weeks.
ElapsedWeeks == (((ElapsedSeconds \div 60) \div 60) \div 24) \div 7

\* formatDate selects the months label.
MonthsLabelSelected == Counted /\ ElapsedWeeks >= 4 /\ diffs.months < 12

\* formatDate selects the years label.
YearsLabelSelected == Counted /\ ElapsedWeeks >= 4 /\ diffs.months >= 12

\* C26: for every timestamp that is not later than now, the relative label
\* never shows a zero count in the months bucket: whenever formatDate
\* selects the months label (elapsed whole weeks >= 4 and month count < 12),
\* the month count shown is at least 1, so '0 months ago' is never displayed.
C26_NoZeroMonthsLabel ==
    /\ MonthsLabelSelected => diffs.months >= 1
    /\ Formatted => formatted.relativeTime # <<"0", " ", "m", "o", "n", "t", "h", "s", " ", "a", "g", "o">>

\* C27: whenever formatDate selects the years label (the anniversary-based
\* month count is >= 12), the anniversary-based year count shown is at least
\* 1, although the months use a rolled-over anniversary day and the years a
\* clamped one: '0 years ago' is never displayed for any pair of a parsed
\* timestamp and a later observation instant.
C27_NoZeroYearsLabel ==
    /\ YearsLabelSelected =>
          /\ diffs.years >= 1
          /\ formatted.relativeTime = CountLabel(diffs.years, <<"y", "e", "a", "r">>)
    /\ Formatted /\ Parseable => formatted.relativeTime # <<"0", " ", "y", "e", "a", "r", "s", " ", "a", "g", "o">>

\* A story of January 31 observed thirteen months later on the last day of
\* February: the month anniversary rolls over into March, the count of
\* months is 12 and the label is '1 year ago'.
C27_Witness ==
    /\ YearsLabelSelected
    /\ ParsedDay[3] > LastDayOf(NowDay[1], NowDay[2])
    /\ MonthAnniversary[2] = NowDay[2] + 1
    /\ diffs.months = 12
    /\ diffs.years = 1
    /\ formatted.relativeTime = <<"1", " ", "y", "e", "a", "r", " ", "a", "g", "o">>

(* Properties of the StoryCard                                             *)
(***************************************************************************)
\* The card is mounted and shows the list view.
InListView == story # Null /\ viewMode = "list"

\* The accordion is expanded, as the user sees it: the panel is there.
Expanded == rendered.panel # <<>>

\* What the list view shows of the content, the date and the link.
ContentRendered == Expanded /\ rendered.panel[1].content # <<>>

DateRendered == Expanded /\ "date" \in DOMAIN rendered.panel[1]

LinkRendered == Expanded /\ "link" \in DOMAIN rendered.panel[1]

\* The story has content to show.
HasContent ==
    \E key \in {"content", "contentSnippet"} :
        key \in DOMAIN story /\ story[key] # EmptyString

\* The activations flip the accordion: expanded exactly after an odd
\* number of them, with aria-expanded and the icon saying so.
TogglesOncePerActivation ==
    /\ isExpanded <=> (activations % 2 = 1)
    /\ Expanded <=> isExpanded
    /\ rendered.button.ariaExpanded <=> isExpanded
    /\ rendered.button.icon = (IF isExpanded THEN MinusSign ELSE PlusSign)

\* C19 as stated: in list view the accordion starts collapsed and every
\* activation of the title button (a click, or an Enter or Space keydown)
\* flips it exactly once, so that after n activations it is expanded iff n
\* is odd; the content, date and link are rendered iff it is expanded, and
\* aria-expanded and the icon ('+' collapsed, the minus sign expanded)
\* always agree with that state.
C19_ContentDateLinkIffExpanded ==
    InListView =>
        /\ TogglesOncePerActivation
        /\ ContentRendered <=> isExpanded
        /\ DateRendered <=> isExpanded
        /\ LinkRendered <=> isExpanded

\* C19, amended: as above, except that the content is rendered iff the
\* accordion is expanded and the story has content (rich content or a
\* summary that is not empty); the date and the link are rendered iff it is
\* expanded.
C19_ContentIffExpandedAndPresent ==
    InListView =>
        /\ TogglesOncePerActivation
        /\ ContentRendered <=> (isExpanded /\ HasContent)
        /\ DateRendered <=> isExpanded
        /\ LinkRendered <=> isExpanded

\* A story without content, expanded by its third activation: the date and
\* the link are shown, and no content.
C19_Witness ==
    /\ InListView
    /\ activations = 3
    /\ isExpanded
    /\ ~HasContent
    /\ ~ContentRendered
    /\ DateRendered
    /\ LinkRendered
    /\ rendered.button.icon = MinusSign

(***************************************************************************)
(* Properties of the CSP report endpoint                                   *)
(***************************************************************************)
\* POST has returned.
Posted == postResponse # NoResponse

\* The body of the request is valid JSON.
ValidJSON == ~requestJson.threw

\* The body is valid JSON with a 'csp-report' entry.
HasReportEntry ==
    /\ ValidJSON
    /\ requestJson.value.type = "object"
    /\ "csp-report" \in DOMAIN requestJson.value.properties

Responded == middlewareHeaders # NoHeaders

\* CSP_MODE as the process has it.
CspMode == IF "CSP_MODE" \in DOMAIN processEnv THEN processEnv["CSP_MODE"] ELSE Undefined

\* A header is set on the response.
HeaderSet(name) == name \in DOMAIN middlewareHeaders

Enforcing == HeaderSet("Content-Security-Policy")

Reporting == HeaderSet("Content-Security-Policy-Report-Only")

AdditionalHeaders ==
    {"X-Content-Type-Options", "X-Frame-Options", "X-XSS-Protection", "Referrer-Policy",
     "Permissions-Policy"}

\* C21: the middleware maps CSP_MODE to headers as documented: 'enforce'
\* sets only Content-Security-Policy, 'report-only' or an unset variable sets
\* only Content-Security-Policy-Report-Only, 'disabled' adds no CSP header;
\* in no mode are both CSP headers set on one response, and the five
\* additional security headers are set in every mode.
C21_CspModeSelectsHeader ==
    Responded =>
        /\ CspMode = <<"e", "n", "f", "o", "r", "c", "e">> => Enforcing /\ ~Reporting
        /\ CspMode \in {<<"r", "e", "p", "o", "r", "t", "-", "o", "n", "l", "y">>, Undefined} => Reporting /\ ~Enforcing
        /\ CspMode = <<"d", "i", "s", "a", "b", "l", "e", "d">> => ~Enforcing /\ ~Reporting
        /\ ~(Enforcing /\ Reporting)
        /\ \A name \in AdditionalHeaders : HeaderSet(name)

\* A process without CSP_MODE: the policy is sent as report-only, with the
\* additional headers.
C21_Witness ==
    /\ Responded
    /\ CspMode = Undefined
    /\ Reporting
    /\ ~Enforcing
    /\ middlewareHeaders["X-Frame-Options"] = <<"D", "E", "N", "Y">>

(***************************************************************************)
(* Properties of the branded types                                         *)
(***************************************************************************)
\* The factories and the converters have been called.
Converted == converted # NotConverted

\* A converter agrees with its factory on the text s: null exactly when the
\* factory throws, and s itself otherwise.
Agree(safe, created, s) ==
    /\ safe = Null <=> created.threw
    /\ ~created.threw => safe = s

\* A factory validates the text s: it throws for the empty string and for
\* the texts that do not parse, and returns a text that parses unchanged.
Validates(created, s, parseable, unparseable) ==
    /\ s = EmptyString => created.threw
    /\ s \in unparseable => created.threw
    /\ s \in parseable => ~created.threw /\ created.value = s

\* C22: the safe converters agree with the throwing factories on every
\* input: toStoryLink(s) is null exactly when createStoryLink(s) throws and is
\* s itself otherwise, and likewise toDateString(s) and createDateString(s);
\* the factories throw for the empty string and for text that is not a
\* parseable URL or date, and return the input unchanged when it is valid.
C22_ConvertersAgreeWithFactories ==
    Converted =>
        /\ Agree(converted.toStoryLink, converted.createStoryLink, candidate.link)
        /\ Agree(converted.toDateString, converted.createDateString, candidate.date)
        /\ Validates(converted.createStoryLink, candidate.link,
                     ParseableLinks, UnparseableLinks)
        /\ Validates(converted.createDateString, candidate.date,
                     ParseableDates, UnparseableDates)

\* A link that does not parse next to a date that does: null for the one,
\* the text itself for the other.
C22_Witness ==
    /\ Converted
    /\ candidate = [link |-> <<"n", "o", "t", "-", "a", "-", "u", "r", "l">>, date |-> <<"2", "0", "2", "4", "-", "0", "1", "-", "1", "5">>]
    /\ converted.toStoryLink = Null
    /\ converted.createStoryLink.threw
    /\ converted.toDateString = <<"2", "0", "2", "4", "-", "0", "1", "-", "1", "5">>

(***************************************************************************)
(* Properties of Home                                                      *)
(***************************************************************************)
\* The page is loaded.
Loaded == home # Null

\* No fetch is in flight, and one has completed.
Settled == Loaded /\ completed >= 1 /\ inFlight = 0

\* C23: in every state where at least one fetch has completed and no fetch
\* is in flight, loading = false and refreshing = false, whichever way the
\* fetch ended (success, error response, or thrown network or JSON failure);
\* loading never becomes true again after the first fetch has completed.
C23_SettledIsNeitherLoadingNorRefreshing ==
    /\ Settled => ~home.loading /\ ~home.refreshing
    /\ Loaded /\ completed >= 1 => ~home.loading

\* A refresh that ended with a thrown failure, after a first fetch.
C23_Witness ==
    /\ Settled
    /\ completed = 2
    /\ lastOutcome.threw
    /\ ~home.loading
    /\ ~home.refreshing

\* The two view modes.
ViewModes == {<<"g", "r", "i", "d">>, <<"l", "i", "s", "t">>}

\* The view mode is one of the two, is the saved one (or 'grid' when that
\* is neither) as long as the toggle has not been clicked, and is the stored
\* one once it has, also after the page is loaded again.
ViewModeIsStored ==
    Loaded =>
        /\ home.viewMode \in ViewModes
        /\ ~toggled =>
              home.viewMode = (IF localStorage \in ViewModes THEN localStorage ELSE <<"g", "r", "i", "d">>)
        /\ toggled => localStorage = home.viewMode

\* A step that clicks the toggle flips the view mode and stores the new one.
ToggleFlipsAndStores ==
    Loaded /\ localStorage' # localStorage =>
        /\ home'.viewMode \in ViewModes \ {home.viewMode}
        /\ localStorage' = home'.viewMode

\* C24: the view mode is always 'grid' or 'list'; it starts as the value
\* saved under the localStorage key 'viewMode' when that value is 'grid' or
\* 'list' and as 'grid' otherwise (nothing saved, or any other saved value);
\* each toggle flips it and writes the new value to localStorage, so after
\* any sequence of toggles the stored value equals the current view mode and
\* a reload restores it.
C24_ViewModePersists == []ViewModeIsStored /\ [][ToggleFlipsAndStores]_vars

\* The page loaded again after the toggle was clicked: the list view is back
\* before any fetch has settled.
C24_Witness ==
    /\ Loaded
    /\ toggled
    /\ completed = 0
    /\ home.loading
    /\ localStorage = <<"l", "i", "s", "t">>
    /\ home.viewMode = <<"l", "i", "s", "t">>

Succeeded(outcome) ==
    /\ ~outcome.threw
    /\ outcome.value.data # Null
    /\ outcome.value.data.success
    /\ "items" \in DOMAIN outcome.value.data

\* When no fetch is in flight the error tells how the last one ended.
ErrorReflectsLastFetch ==
    Settled =>
        IF Succeeded(lastOutcome)
        THEN home.error = NullString /\ home.stories = lastOutcome.value.data.items
        ELSE home.error # NullString /\ home.error # EmptyString

\* A fetch that fails leaves the stories alone.
FailureKeepsStories ==
    Loaded /\ completed' = completed + 1 /\ ~Succeeded(lastOutcome') =>
        home'.stories = home.stories

Optimized == optimized # NotOptimized

\* The attributes name a src and no loading.
ToBeOptimized(attributes) ==
    includes(attributes, <<"s", "r", "c", "=">>) /\ ~includes(attributes, <<"l", "o", "a", "d", "i", "n", "g", "=">>)

\* The text s without the white space at its end.
WithoutTrailingSpace(s) ==
    IF \A i \in 1..Len(s) : s[i] \in WhiteSpace THEN EmptyString
    ELSE SubSeq(s, 1, CHOOSE j \in 1..Len(s) :
                          s[j] \notin WhiteSpace /\ \A k \in (j + 1)..Len(s) : s[k] \in WhiteSpace)

\* What is appended to the attributes: loading, and decoding and alt when
\* the tag has none.
Appended(attributes) ==
    <<" ", "l", "o", "a", "d", "i", "n", "g", "=", "\"", "l", "a", "z", "y", "\"">>
        \o (IF includes(attributes, <<"d", "e", "c", "o", "d", "i", "n", "g", "=">>) THEN EmptyString ELSE <<" ", "d", "e", "c", "o", "d", "i", "n", "g", "=", "\"", "a", "s", "y", "n", "c", "\"">>)
        \o (IF includes(attributes, <<"a", "l", "t", "=">>) THEN EmptyString ELSE <<" ", "a", "l", "t", "=", "\"", "\"">>)

\* The tag is an img tag with the attributes, all their text kept and
\* separated from the name by white space, and with the appended ones.
OptimizedTag(tag, attributes) ==
    /\ Len(tag) > 5
    /\ LiteralAt(tag, 1, <<"<", "i", "m", "g">>, TRUE)
    /\ tag[5] \in WhiteSpace
    /\ includes(tag, trim(attributes))
    /\ \E kept \in {SubSeq(tag, 5, j) : j \in 5..Len(tag)} :
          /\ trim(kept) = trim(attributes)
          /\ tag = SubSeq(tag, 1, 4) \o kept \o Appended(attributes) \o <<">">>

\* The html is text, an img tag with these attributes, and text.
IsOneTag(html, before, name, attributes, after) ==
    html = before \o name \o attributes \o <<">">> \o after

\* C25: optimizeImagesInHTML adds the performance attributes without
\* damaging the tag: for every '<img ...>' tag that has a src attribute and
\* no loading attribute, the output is an img tag whose name is still
\* separated from its first attribute by white space, that keeps all of the
\* tag's original attribute text, and that has loading="lazy" appended, plus
\* decoding="async" and alt="" when those were absent; img tags that already
\* have loading= or have no src, and all text outside img tags, are returned
\* unchanged.
C25_ImgTagsOptimizedUndamaged ==
    Optimized =>
        /\ \A before \in TextsOutside, name \in ImgNames, attributes \in ImgAttributes, after \in TextsOutside :
              IsOneTag(markup, before, name, attributes, after) =>
                  IF ToBeOptimized(attributes)
                  THEN \E tag \in {SubSeq(optimized, Len(before) + 1, j) : j \in Len(before)..(Len(optimized) - Len(after))} :
                          /\ optimized = before \o tag \o after
                          /\ OptimizedTag(tag, attributes)
                  ELSE optimized = markup
        /\ markup \in TextsOutside => optimized = markup

(***************************************************************************)
(* Properties of the stories on the page                                   *)
(***************************************************************************)
\* A story of the response of GET is shown in a card.
Shown == Fetched /\ story # Null

\* The elements the card injects markup into.
Injected ==
    IF viewMode = "list"
    THEN (IF rendered.panel = <<>> THEN <<>> ELSE rendered.panel[1].content)
    ELSE rendered.content

\* The card shows its content: always in the grid, when expanded in the list.
ContentShown == viewMode = "grid" \/ isExpanded

\* C28: the pre-render gate and the renderer look at the same text: for
\* every item of a successful GET response, the string StoryCard injects via
\* dangerouslySetInnerHTML (story.content || story.contentSnippet || '') is
\* exactly the effective content that containsJavaScript examined for that
\* item, so no markup reaches the rendering surface that was not classified
\* SAFE.
C28_RendererInjectsWhatTheGateExamined ==
    Shown =>
        \E i \in 1..Len(feed.feed.items) :
            LET examined == EffectiveContent(feed.feed.items[i])
            IN  /\ Carries(story, feed.feed.items[i])
                /\ ~containsJavaScript(examined)
                /\ \A k \in 1..Len(Injected) : Injected[k].innerHTML = examined
                /\ Len(Injected) = (IF ContentShown /\ examined # EmptyString THEN 1 ELSE 0)

\* A story with a safe rich content and a summary the gate would flag, shown
\* in the grid: the rich content is injected.
C28_Witness ==
    /\ Shown
    /\ viewMode = "grid"
    /\ Prop(story, "contentSnippet") = <<"<", "S", "C", "R", "I", "P", "T", " ", ">">>
    /\ Len(Injected) = 1
    /\ Injected[1].innerHTML = <<"<", "b", ">", "o", "k", "<", "/", "b", ">">>

=============================================================================
